---- MODULE Spec2Model ----
(***************************************************************************)
(* Frame loop, swapchain lifecycle and GPU resource teardown of the        *)
(* renderer in src/src/main.rs.  The main thread is modelled by its        *)
(* program position (pc) inside main / App::create / App::render /         *)
(* App::recreate_swapchain / App::destroy_swapchain / App::destroy; the    *)
(* GPU, the window system and the presentation engine are the environment. *)
(***************************************************************************)
EXTENDS Integers, Sequences, FiniteSets, TLC

----------------------------------------------------------------------------
\* Program constants

MAX_FRAMES_IN_FLIGHT == 2

VALIDATION_ENABLED == TRUE

\* u32::MAX, the width of an undefined capabilities.current_extent.  It is a
\* sentinel that no window dimension equals; the checker's integers stop at
\* 2^31 - 1, which stands for it.
U32_MAX == 2147483647

\* Bounds of the model (inputs of the environment)

\* largest number of images a created swapchain may have
MaxImages == 2

\* window dimensions range over 0..MaxDim
MaxDim == 3

\* per-dimension surface capability bounds (min_image_extent, max_image_extent)
MinExtent == 1

MaxExtent == 2

\* largest number of undelivered resize notifications
MaxQueue == 1

\* largest number of close notifications the window system delivers
MaxClose == 2

\* largest memory_type_count of the physical device
MaxTypes == 3

\* largest number of entries of mesh.indices in a generated geometry source
MaxFaceVertices == 3

\* the widths and heights of an image file lie around the powers of two up
\* to 2 ^ MaxLog2
MaxLog2 == 25

\* largest mip_levels generate_mipmaps is called with
MaxMipLevels == 11

----------------------------------------------------------------------------
Slots == 0 .. (MAX_FRAMES_IN_FLIGHT - 1)

\* vk::Fence::null(); a non-null entry of images_in_flight is a slot fence,
\* named by the index of its slot
NullFence == -1

Dims == 0 .. MaxDim

\* the sizes the window takes: minimized to no width, minimized to no
\* height, narrow and tall, wide and flat
Sizes == {<<0, MaxDim>>, <<MaxDim, 0>>, <<MinExtent, MaxDim>>, <<MaxDim, MinExtent>>}

\* no resize notification is outstanding
NoSize == <<>>

\* the size the window is built with (main, line 56)
InitialSize == <<MaxDim, MinExtent>>

AcquireErrors == {"OUT_OF_DATE_KHR", "ERROR_OTHER"}

PresentResults == {"SUCCESS", "SUBOPTIMAL_KHR", "OUT_OF_DATE_KHR", "ERROR_OTHER"}

----------------------------------------------------------------------------
\* Pure helpers

Min2(a, b) == IF a < b THEN a ELSE b

Max2(a, b) == IF a > b THEN a ELSE b

\* the closure `clamp` without its upper bound: min.max(v)
clamp_NoUpperBound(min, max, v) == Max2(min, v)

\* the closure `clamp` of get_swapchain_extent: min.max(max.min(v))
clamp(min, max, v) == Max2(min, Min2(max, v))

\* vk::SurfaceCapabilitiesKHR, the three extents of it
SurfaceCapabilities(cur, min, max) ==
    [current_extent |-> cur, min_image_extent |-> min, max_image_extent |-> max]

\* get_swapchain_extent clamping the height to the bounds of the width
SwapchainExtent_WidthBounds(caps, size) ==
    IF caps.current_extent[1] # U32_MAX
    THEN caps.current_extent
    ELSE << clamp(caps.min_image_extent[1], caps.max_image_extent[1], size[1]),
            clamp(caps.min_image_extent[1], caps.max_image_extent[1], size[2]) >>

\* get_swapchain_extent(window, capabilities), lines 667-677; size is
\* window.inner_size()
SwapchainExtent(caps, size) ==
    IF caps.current_extent[1] # U32_MAX
    THEN caps.current_extent
    ELSE << clamp(caps.min_image_extent[1], caps.max_image_extent[1], size[1]),
            clamp(caps.min_image_extent[2], caps.max_image_extent[2], size[2]) >>

\* get_swapchain_extent on the surface of the frame loop, whose bounds are
\* MinExtent and MaxExtent in both dimensions; cur is
\* capabilities.current_extent, size is window.inner_size()
get_swapchain_extent(cur, size) ==
    SwapchainExtent(SurfaceCapabilities(cur, <<MinExtent, MinExtent>>,
                                        <<MaxExtent, MaxExtent>>), size)

\* Vec::resize(new_len, value): truncates, or extends with copies of value;
\* the entries that are kept are left as they are
VecResize(v, new_len, value) ==
    [i \in 1 .. new_len |-> IF i <= Len(v) THEN v[i] ELSE value]

RECURSIVE Reverse(_)
Reverse(s) == IF s = <<>> THEN <<>> ELSE Append(Reverse(Tail(s)), Head(s))

RECURSIVE SeqFilter(_, _)
SeqFilter(s, keep) ==
    IF s = <<>> THEN <<>>
    ELSE IF Head(s) \in keep THEN <<Head(s)>> \o SeqFilter(Tail(s), keep)
         ELSE SeqFilter(Tail(s), keep)

Range(s) == {s[i] : i \in 1 .. Len(s)}

----------------------------------------------------------------------------
\* The calls of App::create, in program order, and the objects each creates

\* App::create calling create_framebuffers before the color and depth
\* objects exist
CreateSteps_FramebuffersEarly ==
    << "instance", "surface", "physical_device", "device",
       "swapchain", "swapchain_image_views", "render_pass",
       "descriptor_set_layout", "pipeline", "command_pool",
       "framebuffers", "color_objects", "depth_objects",
       "textures", "texture_sampler", "mesh",
       "uniform_buffers", "descriptor_pool", "descriptor_sets",
       "command_buffers", "sync_objects" >>

CreateSteps ==
    << "instance", "surface", "physical_device", "device",
       "swapchain", "swapchain_image_views", "render_pass",
       "descriptor_set_layout", "pipeline", "command_pool",
       "color_objects", "depth_objects", "framebuffers",
       "textures", "texture_sampler", "mesh",
       "uniform_buffers", "descriptor_pool", "descriptor_sets",
       "command_buffers", "sync_objects" >>

\* recreate_swapchain calling create_sync_objects as App::create does
RecreateSteps_WithSyncObjects ==
    << "swapchain", "swapchain_image_views", "render_pass", "pipeline",
       "color_objects", "depth_objects", "framebuffers",
       "uniform_buffers", "descriptor_pool", "descriptor_sets",
       "command_buffers", "sync_objects" >>

\* The create calls of App::recreate_swapchain, in program order
RecreateSteps ==
    << "swapchain", "swapchain_image_views", "render_pass", "pipeline",
       "color_objects", "depth_objects", "framebuffers",
       "uniform_buffers", "descriptor_pool", "descriptor_sets",
       "command_buffers" >>

\* objects a create call makes, in the order it makes them
Creates(call) ==
    CASE call = "instance"        -> IF VALIDATION_ENABLED
                                     THEN <<"instance", "messenger">>
                                     ELSE <<"instance">>
      [] call = "physical_device" -> <<>>
      [] call = "pipeline"        -> <<"pipeline_layout", "pipeline">>
      [] call = "color_objects"   -> <<"color_image", "color_image_memory", "color_image_view">>
      [] call = "depth_objects"   -> <<"depth_image", "depth_image_memory", "depth_image_view">>
      [] call = "uniform_buffers" -> <<"uniform_buffers", "uniform_buffers_memory">>
      [] call = "sync_objects"    -> <<"image_available_semaphores", "render_finished_semaphores",
                                       "in_flight_fences">>
      [] OTHER                    -> <<call>>

\* destroy_swapchain with lines 273 and 274 exchanged: the pipeline layout is
\* destroyed before the pipeline
DestroySwapchainSteps_LayoutFirst ==
    << "color_image_view", "color_image_memory", "color_image",
       "depth_image_view", "depth_image_memory", "depth_image",
       "descriptor_pool", "uniform_buffers", "uniform_buffers_memory",
       "framebuffers", "command_buffers", "pipeline_layout", "pipeline",
       "render_pass", "swapchain_image_views", "swapchain" >>

\* The destroy calls of App::destroy_swapchain, in program order
DestroySwapchainSteps ==
    << "color_image_view", "color_image_memory", "color_image",
       "depth_image_view", "depth_image_memory", "depth_image",
       "descriptor_pool", "uniform_buffers", "uniform_buffers_memory",
       "framebuffers", "command_buffers", "pipeline", "pipeline_layout",
       "render_pass", "swapchain_image_views", "swapchain" >>

\* The destroy calls of App::destroy that follow destroy_swapchain
DestroySteps ==
    << "texture_sampler", "textures", "descriptor_set_layout", "mesh",
       "in_flight_fences", "render_finished_semaphores",
       "image_available_semaphores", "command_pool", "device", "surface" >>
    \o (IF VALIDATION_ENABLED THEN <<"messenger">> ELSE <<>>)
    \o << "instance" >>

\* objects a destroy call ends the life of (descriptor sets are freed with
\* their pool)
Destroys(call) ==
    IF call = "descriptor_pool" THEN {"descriptor_pool", "descriptor_sets"}
    ELSE {call}

----------------------------------------------------------------------------
\* State

VARIABLES
    pc,               \* position of the main thread
    step,             \* index of the next call inside a create / destroy sequence
    caller,           \* who called recreate_swapchain / destroy_swapchain
    frame,            \* App::frame
    resized,          \* App::resized
    minimized,        \* main: minimized
    destroying,       \* main: destroying
    control_flow,     \* *control_flow
    in_flight_fences, \* data.in_flight_fences: TRUE = signaled, FALSE = unsignaled
    pending,          \* batches submitted to the graphics queue and not yet completed
    image_available_semaphores, \* data.image_available_semaphores: TRUE = signaled
    render_finished_semaphores, \* data.render_finished_semaphores: TRUE = signaled
    present_queue,    \* present requests still waiting on their semaphore
    images_in_flight, \* data.images_in_flight: NullFence or the slot of a fence
    swapchain_images, \* data.swapchain_images.len()
    array_lengths,    \* the lengths of the other per-image vectors of AppData
    image_index,      \* render: image_index
    result,           \* render: result (of acquire, then of present)
    renderResult,     \* value returned by the last call of render
    swapchain_extent, \* data.swapchain_extent
    current_extent,   \* capabilities.current_extent read by the last create_swapchain
    windowSize,       \* window.inner_size()
    events,           \* resize notifications not yet delivered
    closes,           \* close notifications delivered
    createLog,        \* live objects, in the order they were created
    destroyLog,       \* destroy calls made by destroy_swapchain in the running handler
    ops,              \* device operations issued by the running render call
    notified,         \* size of the last resize notification with both dimensions
                      \* non-zero that no returned frame has followed yet
    transfer,         \* the one-shot transfer App::create is running, if any
    memory_types,     \* get_memory_type_index: memory.memory_types[0 .. memory_type_count)
    requirements,     \* get_memory_type_index: requirements.memory_type_bits
    properties,       \* get_memory_type_index: properties
    memory_type_index, \* get_memory_type_index: the value returned
    face_vertices,    \* from_filepath: the Vertex built for each entry of mesh.indices
    cursor,           \* from_filepath: entries of face_vertices visited by the loop
    unique_vertices,  \* from_filepath: the entries of the HashMap
    vertices,         \* from_filepath: vertices
    indices,          \* from_filepath: indices
    mesh_file,        \* from_filepath: the file named by filepath
    mesh_pc,          \* from_filepath: position of the call
    mesh_objects,     \* from_filepath: device objects created and not destroyed
    mesh_result,      \* from_filepath: how the call ended
    capabilities,     \* get_swapchain_extent: capabilities
    inner_size,       \* get_swapchain_extent: window.inner_size()
    extent,           \* get_swapchain_extent: the value returned
    image_file,       \* load_from_file: the file named by filename
    tex_pc,           \* load_from_file: position of the call
    width,            \* load_from_file / generate_mipmaps: width
    height,           \* load_from_file / generate_mipmaps: height
    mip_levels,       \* load_from_file / generate_mipmaps: mip_levels
    staging,          \* load_from_file: contents of the staging buffer
    copy_cmd,         \* load_from_file: commands recorded into copy_cmd
    tex_fence,        \* load_from_file: fence
    tex_objects,      \* load_from_file: device objects created and not destroyed
    levels,           \* the mip levels of the image: layout and contents
    tex_result,       \* load_from_file: how the call ended
    texture,          \* load_from_file: the Texture returned
    data_mip_levels,  \* AppData::mip_levels
    texture_sampler,  \* AppData::texture_sampler
    descriptor_sets,  \* the image binding written into data.descriptor_sets
    gm_pc,            \* generate_mipmaps: position of the call
    format_features,  \* generate_mipmaps: optimal_tiling_features of format
    mip_width,        \* generate_mipmaps: mip_width
    mip_height,       \* generate_mipmaps: mip_height
    mip_i,            \* generate_mipmaps: i of the loop
    command_buffer,   \* generate_mipmaps: commands recorded into command_buffer
    gm_objects,       \* generate_mipmaps: command buffers allocated and not freed
    gm_fence,         \* generate_mipmaps: the fence of the submitted command buffer
    gm_result,        \* generate_mipmaps: the value returned
    res_kind,         \* create_buffer / create_image: which of the two is called
    res_pc,           \* create_buffer / create_image: position of the call
    res_objects,      \* create_buffer / create_image: objects created and not destroyed
    res_result        \* create_buffer / create_image: the value returned

vars == << pc, step, caller, frame, resized, minimized, destroying, control_flow,
           in_flight_fences, pending, image_available_semaphores,
           render_finished_semaphores, present_queue, images_in_flight,
           swapchain_images, array_lengths, image_index, result, renderResult,
           swapchain_extent, current_extent,
           windowSize, events, closes, createLog, destroyLog, ops, notified,
           transfer, memory_types, requirements, properties, memory_type_index,
           face_vertices, cursor, unique_vertices, vertices, indices,
           mesh_file, mesh_pc, mesh_objects, mesh_result,
           capabilities, inner_size, extent,
           image_file, tex_pc, width, height, mip_levels, staging, copy_cmd,
           tex_fence, tex_objects, levels, tex_result, texture,
           data_mip_levels, texture_sampler, descriptor_sets,
           gm_pc, format_features, mip_width, mip_height, mip_i, command_buffer,
           gm_objects, gm_fence, gm_result,
           res_kind, res_pc, res_objects, res_result >>

appVars == << pc, step, caller, frame, resized, minimized, destroying, control_flow,
              in_flight_fences, pending, image_available_semaphores,
              render_finished_semaphores, present_queue, images_in_flight,
              swapchain_images, array_lengths, image_index, result, renderResult,
              swapchain_extent, current_extent, windowSize, events, closes, createLog, destroyLog, ops,
              notified, transfer >>

resVars == << res_kind, res_pc, res_objects, res_result >>

memVars == << memory_types, requirements, properties, memory_type_index, resVars >>

meshVars == << face_vertices, cursor, unique_vertices, vertices, indices,
              mesh_file, mesh_pc, mesh_objects, mesh_result >>

imageVars == << width, height, mip_levels, levels >>

texVars == << image_file, tex_pc, staging, copy_cmd, tex_fence, tex_objects,
             tex_result, texture, data_mip_levels, texture_sampler, descriptor_sets >>

extentVars == << capabilities, inner_size, extent >>

mipVars == << gm_pc, format_features, mip_width, mip_height, mip_i, command_buffer,
             gm_objects, gm_fence, gm_result >>

assetVars == << memVars, meshVars, imageVars, texVars, extentVars, mipVars >>

loopVars == << minimized, destroying, control_flow, closes >>

semVars == << image_available_semaphores, render_finished_semaphores, present_queue >>

syncVars == << in_flight_fences, pending, images_in_flight, semVars >>

swapVars == << swapchain_images, swapchain_extent, current_extent, array_lengths >>

\* the per-image vectors of AppData other than swapchain_images and
\* images_in_flight
PerImageArrays ==
    {"swapchain_image_views", "framebuffers", "command_buffers",
     "uniform_buffers", "uniform_buffers_memory", "descriptor_sets"}

envVars == << windowSize, events >>

\* no one-shot transfer is running
NoTransfer == [kind |-> "none", fence |-> "none", pending |-> FALSE, live |-> {}]

\* main before App::create
AppInit ==
    /\ pc = "create"
    /\ step = 1
    /\ caller = "none"
    /\ frame = 0
    /\ resized = FALSE
    /\ minimized = FALSE
    /\ destroying = FALSE
    /\ control_flow = "Poll"
    /\ in_flight_fences = <<>>
    /\ pending = <<>>
    /\ image_available_semaphores = <<>>
    /\ render_finished_semaphores = <<>>
    /\ present_queue = {}
    /\ images_in_flight = <<>>
    /\ swapchain_images = 0
    /\ array_lengths = [a \in PerImageArrays |-> 0]
    /\ image_index = 0
    /\ result = "none"
    /\ renderResult = "none"
    /\ swapchain_extent = <<0, 0>>
    /\ current_extent = <<0, 0>>
    /\ windowSize = InitialSize
    /\ events = <<>>
    /\ closes = 0
    /\ createLog = <<>>
    /\ destroyLog = <<>>
    /\ ops = {}
    /\ notified = NoSize
    /\ transfer = NoTransfer

\* get_memory_type_index is not being called
NoResource ==
    /\ res_kind = "none"
    /\ res_pc = "none"
    /\ res_objects = {}
    /\ res_result = "none"

NoMemoryQuery ==
    /\ memory_types = <<>>
    /\ requirements = 0
    /\ properties = {}
    /\ memory_type_index = <<>>
    /\ NoResource

\* Mesh::from_filepath is not running
NoMesh ==
    /\ face_vertices = <<>>
    /\ cursor = 0
    /\ unique_vertices = {}
    /\ vertices = <<>>
    /\ indices = <<>>
    /\ mesh_file = "none"
    /\ mesh_pc = "none"
    /\ mesh_objects = {}
    /\ mesh_result = "none"

\* get_swapchain_extent is not being called on its own
NoExtentQuery ==
    /\ capabilities = <<>>
    /\ inner_size = <<>>
    /\ extent = <<>>

\* generate_mipmaps is not running
NoMipmaps ==
    /\ gm_pc = "none"
    /\ format_features = {}
    /\ mip_width = 0
    /\ mip_height = 0
    /\ mip_i = 0
    /\ command_buffer = <<>>
    /\ gm_objects = {}
    /\ gm_fence = "none"
    /\ gm_result = "none"

\* no image is being worked on
NoImage ==
    /\ width = 0
    /\ height = 0
    /\ mip_levels = 0
    /\ levels = <<>>

\* Texture2D::load_from_file is not running
NoTexture ==
    /\ image_file = [state |-> "none", size |-> <<0, 0>>]
    /\ tex_pc = "none"
    /\ staging = "none"
    /\ copy_cmd = <<>>
    /\ tex_fence = "none"
    /\ tex_objects = {}
    /\ tex_result = "none"
    /\ texture = <<>>
    /\ data_mip_levels = 0
    /\ texture_sampler = <<>>
    /\ descriptor_sets = <<>>

Init ==
    AppInit /\ NoMemoryQuery /\ NoMesh /\ NoImage /\ NoTexture /\ NoExtentQuery /\ NoMipmaps

----------------------------------------------------------------------------
\* Creation calls shared by App::create and App::recreate_swapchain

\* capabilities.current_extent as the surface may report it: undefined
\* (u32::MAX), or the size of the window
CurrentExtents == {<<U32_MAX, U32_MAX>>, windowSize}

\* create_swapchain: extent from the capabilities and the window, image
\* list from the driver
create_swapchain ==
    \E n \in 1 .. MaxImages, cur \in CurrentExtents :
        /\ current_extent' = cur
        /\ swapchain_extent' = get_swapchain_extent(cur, windowSize)
        /\ swapchain_images' = n

\* create_sync_objects without FenceCreateFlags::SIGNALED (line 1038)
create_sync_objects_Unsignaled ==
    /\ image_available_semaphores' =
           image_available_semaphores \o [s \in 1 .. MAX_FRAMES_IN_FLIGHT |-> FALSE]
    /\ render_finished_semaphores' =
           render_finished_semaphores \o [s \in 1 .. MAX_FRAMES_IN_FLIGHT |-> FALSE]
    /\ in_flight_fences' = in_flight_fences \o [s \in 1 .. MAX_FRAMES_IN_FLIGHT |-> FALSE]
    /\ images_in_flight' = [i \in 1 .. swapchain_images |-> NullFence]

\* create_sync_objects: pushes MAX_FRAMES_IN_FLIGHT unsignaled semaphores onto
\* each semaphore array and as many signaled fences onto in_flight_fences,
\* and sets a null entry of images_in_flight per swapchain image
create_sync_objects ==
    /\ image_available_semaphores' =
           image_available_semaphores \o [s \in 1 .. MAX_FRAMES_IN_FLIGHT |-> FALSE]
    /\ render_finished_semaphores' =
           render_finished_semaphores \o [s \in 1 .. MAX_FRAMES_IN_FLIGHT |-> FALSE]
    /\ in_flight_fences' = in_flight_fences \o [s \in 1 .. MAX_FRAMES_IN_FLIGHT |-> TRUE]
    /\ images_in_flight' = [i \in 1 .. swapchain_images |-> NullFence]

\* create_uniform_buffers without the two clear() calls of lines 1078-1079
create_uniform_buffers_NoClear == array_lengths["uniform_buffers"] + swapchain_images

\* create_uniform_buffers (lines 1078-1091): the length of uniform_buffers
\* and uniform_buffers_memory after clear() and one push per swapchain image
create_uniform_buffers == swapchain_images

\* the lengths of the per-image vectors after a create call: line 684 maps
\* swapchain_images, line 929 maps swapchain_image_views, line 971 allocates
\* framebuffers.len() command buffers, line 1126 allocates one descriptor set
\* per swapchain image
create_arrays(call) ==
    CASE call = "swapchain_image_views" ->
           [array_lengths EXCEPT !["swapchain_image_views"] = swapchain_images]
      [] call = "framebuffers" ->
           [array_lengths EXCEPT !["framebuffers"] = array_lengths["swapchain_image_views"]]
      [] call = "command_buffers" ->
           [array_lengths EXCEPT !["command_buffers"] = array_lengths["framebuffers"]]
      [] call = "uniform_buffers" ->
           [array_lengths EXCEPT !["uniform_buffers"] = create_uniform_buffers,
                                 !["uniform_buffers_memory"] = create_uniform_buffers]
      [] call = "descriptor_sets" ->
           [array_lengths EXCEPT !["descriptor_sets"] = swapchain_images]
      [] OTHER -> array_lengths

CreateCall(call) ==
    /\ createLog' = createLog \o Creates(call)
    /\ IF call = "swapchain"
       THEN create_swapchain /\ array_lengths' = array_lengths
       ELSE /\ UNCHANGED << swapchain_images, swapchain_extent, current_extent >>
            /\ array_lengths' = create_arrays(call)
    /\ IF call = "sync_objects"
       THEN create_sync_objects
       ELSE UNCHANGED << in_flight_fences, images_in_flight,
                         image_available_semaphores, render_finished_semaphores >>

\* the positions of the main thread inside App::create
CreatePcs == {"create", "x_submit", "x_wait", "x_free", "x_done"}

\* the calls of App::create that upload through one-shot transfers
TransferSteps == {"textures", "mesh"}

\* App::create, one call per step
Create_Step ==
    /\ pc = "create"
    /\ CreateSteps[step] \notin TransferSteps
    /\ CreateCall(CreateSteps[step])
    /\ IF step = Len(CreateSteps)
       THEN pc' = "loop" /\ step' = 1
       ELSE pc' = "create" /\ step' = step + 1
    /\ UNCHANGED << caller, frame, resized, loopVars, pending, present_queue,
                    image_index, result, renderResult, envVars, destroyLog, ops,
                    notified,
                    transfer, assetVars >>

\* a call of App::create returns an error: main returns it (line 59)
Create_Fails ==
    /\ pc \in {"create", "x_submit", "x_wait"}
    /\ pc' = "exited_err"
    /\ UNCHANGED << step, caller, frame, resized, loopVars, syncVars, swapVars,
                    image_index, result, renderResult, envVars, createLog,
                    destroyLog, ops, notified,
                    transfer, assetVars >>

----------------------------------------------------------------------------
\* One-shot transfers of App::create: Texture2D::load_from_file
\* (texture.rs 73-203) and Mesh::create_vertex_buffer / create_index_buffer
\* (mesh.rs 116-180) through copy_buffer (shared_memory.rs 7-22)

\* what a transfer allocates before it submits: the command buffer and the
\* staging buffer with its memory
TransferObjects == {"command_buffer", "staging_buffer", "staging_memory"}

\* a transfer begins: the staging buffer is created and filled and the
\* command buffer is allocated and recorded
BeginTransfer(kind) ==
    [kind |-> kind, fence |-> "none", pending |-> FALSE, live |-> TransferObjects]

\* texture.rs 73-190 for "textures", mesh.rs 124-141 and
\* begin_single_time_commands for "mesh"
Transfer_Begin ==
    /\ pc = "create"
    /\ CreateSteps[step] \in TransferSteps
    /\ transfer' = BeginTransfer(IF CreateSteps[step] = "textures" THEN "texture" ELSE "vertex")
    /\ pc' = "x_submit"
    /\ UNCHANGED << step, caller, frame, resized, loopVars, syncVars, swapVars,
                    image_index, result, renderResult, envVars, createLog,
                    destroyLog, ops, notified, assetVars >>

\* texture.rs 192-196, and end_single_time_commands: a new, unsignaled fence
\* is created and the command buffer is submitted with it
Transfer_Submit ==
    /\ pc = "x_submit"
    /\ transfer' = [transfer EXCEPT !.fence = "unsignaled", !.pending = TRUE,
                                    !.live = @ \cup {"fence"}]
    /\ pc' = "x_wait"
    /\ UNCHANGED << step, caller, frame, resized, loopVars, syncVars, swapVars,
                    image_index, result, renderResult, envVars, createLog,
                    destroyLog, ops, notified, assetVars >>

\* the GPU completes the batch of the transfer and signals its fence
Transfer_GpuComplete ==
    /\ transfer.pending
    /\ pc \notin {"exited", "exited_err", "panicked"}
    /\ transfer' = [transfer EXCEPT !.pending = FALSE,
                                    !.fence = IF @ = "unsignaled" THEN "signaled" ELSE @]
    /\ UNCHANGED << pc, step, caller, frame, resized, loopVars, syncVars, swapVars,
                    image_index, result, renderResult, envVars, createLog,
                    destroyLog, ops, notified, assetVars >>

\* a wait with the timeout u64::MAX returns once the fence is signaled
UnboundedWaitReturns(fence) == fence = "signaled"

\* texture.rs 197: wait_for_fences(&[fence], true, 100000000000) returns
\* SUCCESS once the fence is signaled and TIMEOUT after 100 s; both are
\* success codes, so `?` passes either
BoundedWaitReturns(fence) == fence \in {"signaled", "unsignaled"}

\* the wait of the transfer: texture.rs 197 for the texture upload, the wait
\* of end_single_time_commands for a buffer copy
TransferWaitReturns ==
    IF transfer.kind = "texture"
    THEN BoundedWaitReturns(transfer.fence)
    ELSE UnboundedWaitReturns(transfer.fence)

Transfer_WaitReturns ==
    /\ pc = "x_wait"
    /\ TransferWaitReturns
    /\ pc' = "x_free"
    /\ UNCHANGED << step, caller, frame, resized, loopVars, syncVars, swapVars,
                    image_index, result, renderResult, envVars, createLog,
                    destroyLog, ops, notified, transfer, assetVars >>

\* texture.rs 198-203: destroy the fence, free the command buffer, free the
\* staging memory and buffer; end_single_time_commands frees the command
\* buffer and the fence, then mesh.rs 143-144 frees the staging buffer and
\* memory.  create_index_buffer follows create_vertex_buffer (mesh.rs 103-104).
Transfer_Free ==
    /\ pc = "x_free"
    /\ IF transfer.kind = "vertex"
       THEN /\ transfer' = [BeginTransfer("index") EXCEPT !.pending = transfer.pending]
            /\ pc' = "x_submit"
       ELSE /\ transfer' = [transfer EXCEPT !.fence = "destroyed", !.live = {}]
            /\ pc' = "x_done"
    /\ UNCHANGED << step, caller, frame, resized, loopVars, syncVars, swapVars,
                    image_index, result, renderResult, envVars, createLog,
                    destroyLog, ops, notified, assetVars >>

\* the rest of load_from_file (texture.rs 205-240) or of from_filepath
\* (mesh.rs 106-112): the objects of the call exist
Transfer_Done ==
    /\ pc = "x_done"
    /\ CreateCall(CreateSteps[step])
    /\ transfer' = NoTransfer
    /\ pc' = "create"
    /\ step' = step + 1
    /\ UNCHANGED << caller, frame, resized, loopVars, pending, present_queue,
                    image_index, result, renderResult, envVars, destroyLog, ops,
                    notified, assetVars >>

----------------------------------------------------------------------------
\* The GPU

\* a semaphore of one of the two arrays
Semaphore(arr, slot) == [arr |-> arr, slot |-> slot]

\* the state of both semaphore arrays
Semaphores == [image_available |-> image_available_semaphores,
               render_finished |-> render_finished_semaphores]

Signaled(sems, sem) == sems[sem.arr][sem.slot + 1]

SetSemaphore(sems, sem, v) == [sems EXCEPT ![sem.arr][sem.slot + 1] = v]

\* a batch of queue_submit: the fence slot, the image its command buffer
\* renders to, the semaphore it waits on and the semaphore it signals
Submission(slot, image, wait, signal) ==
    [slot |-> slot, image |-> image, wait |-> wait, signal |-> signal]

\* a present request of queue_present_khr
PresentRequest(image, wait) == [image |-> image, wait |-> wait]

\* the presentation engine runs every queued request whose semaphore is
\* signaled; the wait unsignals the semaphore
RunPresents(sems, queue) ==
    LET ready == {p \in queue : Signaled(sems, p.wait)} IN
    /\ present_queue' = queue \ ready
    /\ image_available_semaphores' =
          [s \in DOMAIN sems.image_available |->
              sems.image_available[s]
              /\ ~\E p \in ready : p.wait = Semaphore("image_available", s - 1)]
    /\ render_finished_semaphores' =
          [s \in DOMAIN sems.render_finished |->
              sems.render_finished[s]
              /\ ~\E p \in ready : p.wait = Semaphore("render_finished", s - 1)]

RemoveAt(s, k) == [i \in 1 .. (Len(s) - 1) |-> IF i < k THEN s[i] ELSE s[i + 1]]

\* the GPU runs a submitted batch once its wait semaphore is signaled: the
\* wait unsignals it, the completion signals the batch's signal semaphore and
\* the fence passed to queue_submit
GpuComplete ==
    /\ pc \notin {"exited", "exited_err", "panicked"}
    /\ \E k \in 1 .. Len(pending) :
        /\ Signaled(Semaphores, pending[k].wait)
        /\ pending' = RemoveAt(pending, k)
        /\ in_flight_fences' = [in_flight_fences EXCEPT ![pending[k].slot + 1] = TRUE]
        /\ RunPresents(SetSemaphore(SetSemaphore(Semaphores, pending[k].wait, FALSE),
                                    pending[k].signal, TRUE),
                       present_queue)
    /\ UNCHANGED << pc, step, caller, frame, resized, loopVars, images_in_flight,
                    swapVars, image_index, result, renderResult, envVars,
                    createLog, destroyLog, ops, notified,
                    transfer, assetVars >>

\* a wait that does not block: wait_for_fences called with a zero timeout
FenceWaitReturns_NoBlock(fence) == TRUE

\* wait_for_fences(&[fence], true, u64::MAX) returns once the fence is signaled
FenceWaitReturns(fence) == in_flight_fences[fence + 1]

\* recreate_swapchain and the close handler without device_wait_idle()
DeviceIdle_NoWait == TRUE

\* device_wait_idle() returns once no queue operation is outstanding
DeviceIdle == pending = <<>> /\ present_queue = {}

----------------------------------------------------------------------------
\* App::render (lines 153-214)

\* line 67 without `!destroying` in the guard
MainEventsCleared_NoDestroyingGuard ==
    /\ pc = "loop"
    /\ ~minimized
    /\ pc' = "r_wait"
    /\ UNCHANGED << step, caller, frame, resized, loopVars, syncVars, swapVars,
                    image_index, result, renderResult, envVars, createLog,
                    destroyLog, ops, notified,
                    transfer, assetVars >>

\* main, line 67-68: MainEventsCleared if !destroying && !minimized
MainEventsCleared ==
    /\ pc = "loop"
    /\ ~destroying /\ ~minimized
    /\ pc' = "r_wait"
    /\ UNCHANGED << step, caller, frame, resized, loopVars, syncVars, swapVars,
                    image_index, result, renderResult, envVars, createLog,
                    destroyLog, ops, notified,
                    transfer, assetVars >>

\* line 154: wait on the fence of slot `frame`
Render_WaitSlotFence ==
    /\ pc = "r_wait"
    /\ FenceWaitReturns(frame)
    /\ pc' = "r_acquire"
    /\ UNCHANGED << step, caller, frame, resized, loopVars, syncVars, swapVars,
                    image_index, result, renderResult, envVars, createLog,
                    destroyLog, ops, notified,
                    transfer, assetVars >>

\* line 159: the semaphore acquire_next_image_khr is to signal
acquire_semaphore(f) == Semaphore("image_available", f)

\* lines 156-164: acquire_next_image_khr returns Ok((image_index, _)); the
\* success code (SUCCESS or SUBOPTIMAL_KHR) is dropped by the pattern
Render_AcquireOk ==
    /\ pc = "r_acquire"
    /\ \E i \in 0 .. (swapchain_images - 1) : image_index' = i
    /\ result' = "Ok"
    /\ RunPresents(SetSemaphore(Semaphores, acquire_semaphore(frame), TRUE), present_queue)
    /\ ops' = ops \cup {"acquire"}
    /\ pc' = "r_waitimg"
    /\ UNCHANGED << step, caller, frame, resized, loopVars, in_flight_fences, pending,
                    images_in_flight, swapVars, renderResult, envVars, createLog,
                    destroyLog, notified,
                    transfer, assetVars >>

\* line 165 without its own arm: a stale acquire falls into Err(e) of line 166
Render_AcquireOutOfDate_AsError ==
    /\ pc = "r_acquire"
    /\ result' = "OUT_OF_DATE_KHR"
    /\ ops' = ops \cup {"acquire"}
    /\ renderResult' = "Err"
    /\ pc' = "panicked"
    /\ UNCHANGED << step, caller, frame, resized, loopVars, syncVars, swapVars,
                    image_index, envVars, createLog, destroyLog, notified,
                    transfer, assetVars >>

\* line 165: Err(OUT_OF_DATE_KHR) => return self.recreate_swapchain(window)
Render_AcquireOutOfDate ==
    /\ pc = "r_acquire"
    /\ result' = "OUT_OF_DATE_KHR"
    /\ ops' = ops \cup {"acquire", "recreate"}
    /\ caller' = "acquire"
    /\ pc' = "rc_idle"
    /\ UNCHANGED << step, frame, resized, loopVars, syncVars, swapVars, image_index,
                    renderResult, envVars, createLog, destroyLog, notified,
                    transfer, assetVars >>

\* line 166: Err(e) => return Err(anyhow!(e)); main unwraps it (line 68)
Render_AcquireError ==
    /\ pc = "r_acquire"
    /\ result' = "ERROR_OTHER"
    /\ ops' = ops \cup {"acquire"}
    /\ renderResult' = "Err"
    /\ pc' = "panicked"
    /\ UNCHANGED << step, caller, frame, resized, loopVars, syncVars, swapVars,
                    image_index, envVars, createLog, destroyLog, notified,
                    transfer, assetVars >>

\* render without the wait of lines 169-175
ImageWaitReturns_Skipped == TRUE

\* lines 169-175: the wait on images_in_flight[image_index] is skipped for a
\* null entry
ImageWaitReturns ==
    IF images_in_flight[image_index + 1] = NullFence
    THEN TRUE
    ELSE FenceWaitReturns(images_in_flight[image_index + 1])

\* lines 169-175 without line 177: the fence of this slot is not recorded
\* for the image
Render_WaitImageFence_NoRecord ==
    /\ pc = "r_waitimg"
    /\ ImageWaitReturns
    /\ pc' = "r_uniform"
    /\ UNCHANGED << step, caller, frame, resized, loopVars, syncVars, swapVars,
                    image_index, result, renderResult, envVars, createLog,
                    destroyLog, ops, notified,
                    transfer, assetVars >>

\* lines 169-177: wait on the fence recorded for the image, then record the
\* fence of this slot for it
Render_WaitImageFence ==
    /\ pc = "r_waitimg"
    /\ ImageWaitReturns
    /\ images_in_flight' = [images_in_flight EXCEPT ![image_index + 1] = frame]
    /\ pc' = "r_uniform"
    /\ UNCHANGED << step, caller, frame, resized, loopVars, in_flight_fences, pending,
                    semVars, swapVars, image_index, result, renderResult, envVars,
                    createLog, destroyLog, ops, notified,
                    transfer, assetVars >>

\* line 178: update_uniform_buffer(image_index)
Render_UpdateUniform ==
    /\ pc = "r_uniform"
    /\ ops' = ops \cup {"uniform"}
    /\ pc' = "r_reset"
    /\ UNCHANGED << step, caller, frame, resized, loopVars, syncVars, swapVars,
                    image_index, result, renderResult, envVars, createLog,
                    destroyLog, notified,
                    transfer, assetVars >>

\* line 191: reset_fences(&[in_flight_fences[frame]])
Render_ResetFence ==
    /\ pc = "r_reset"
    /\ in_flight_fences' = [in_flight_fences EXCEPT ![frame + 1] = FALSE]
    /\ ops' = ops \cup {"reset"}
    /\ pc' = "r_submit"
    /\ UNCHANGED << step, caller, frame, resized, loopVars, pending, images_in_flight,
                    semVars, swapVars, image_index, result, renderResult, envVars,
                    createLog, destroyLog, notified,
                    transfer, assetVars >>

\* line 180 naming the semaphore of the other slot
wait_semaphores_OtherSlot(f) ==
    Semaphore("image_available", (f + 1) % MAX_FRAMES_IN_FLIGHT)

\* line 180: wait_semaphores
wait_semaphores(f) == Semaphore("image_available", f)

\* line 183: signal_semaphores
signal_semaphores(f) == Semaphore("render_finished", f)

\* line 192: queue_submit(graphics_queue, &[submit_info], in_flight_fences[frame])
Render_Submit ==
    /\ pc = "r_submit"
    /\ pending' = Append(pending, Submission(frame, image_index, wait_semaphores(frame),
                                             signal_semaphores(frame)))
    /\ ops' = ops \cup {"submit"}
    /\ pc' = "r_present"
    /\ UNCHANGED << step, caller, frame, resized, loopVars, in_flight_fences,
                    images_in_flight, semVars, swapVars, image_index, result, renderResult,
                    envVars, createLog, destroyLog, notified,
                    transfer, assetVars >>

\* line 197 waiting on the semaphore the acquire signals
present_wait_semaphores_AcquireSemaphore(f) == wait_semaphores(f)

\* line 197: .wait_semaphores(signal_semaphores)
present_wait_semaphores(f) == signal_semaphores(f)

\* line 201: queue_present_khr hands the request to the presentation engine
queue_present_khr ==
    RunPresents(Semaphores,
                present_queue \cup {PresentRequest(image_index, present_wait_semaphores(frame))})

\* the results of queue_present_khr that are Err(_)
IsErr(r) == r \in {"OUT_OF_DATE_KHR", "ERROR_OTHER"}

\* line 202 without the SUBOPTIMAL_KHR comparison
changed_StaleOnly(r) == r = "OUT_OF_DATE_KHR"

\* line 202
changed(r) == r = "SUBOPTIMAL_KHR" \/ r = "OUT_OF_DATE_KHR"

\* lines 201-209, first branch: present, then resized || changed: clear the
\* flag and call recreate_swapchain
Render_PresentRecreate ==
    /\ pc = "r_present"
    /\ \E r \in PresentResults :
        /\ resized \/ changed(r)
        /\ result' = r
    /\ queue_present_khr
    /\ ops' = ops \cup {"present", "recreate"}
    /\ resized' = FALSE
    /\ caller' = "present"
    /\ pc' = "rc_idle"
    /\ UNCHANGED << step, frame, loopVars, in_flight_fences, pending, images_in_flight,
                    swapVars, image_index, renderResult, envVars, createLog,
                    destroyLog, notified,
                    transfer, assetVars >>

\* lines 201-208, second branch: present failed, nothing changed: return the error
Render_PresentError ==
    /\ pc = "r_present"
    /\ \E r \in PresentResults :
        /\ ~(resized \/ changed(r))
        /\ IsErr(r)
        /\ result' = r
    /\ queue_present_khr
    /\ ops' = ops \cup {"present"}
    /\ renderResult' = "Err"
    /\ pc' = "panicked"
    /\ UNCHANGED << step, caller, frame, resized, loopVars, in_flight_fences, pending,
                    images_in_flight, swapVars, image_index, envVars, createLog,
                    destroyLog, notified,
                    transfer, assetVars >>

\* lines 201-213, no branch taken: advance the frame slot and return Ok
Render_PresentOk ==
    /\ pc = "r_present"
    /\ \E r \in PresentResults :
        /\ ~(resized \/ changed(r))
        /\ ~IsErr(r)
        /\ result' = r
    /\ queue_present_khr
    /\ ops' = ops \cup {"present"}
    /\ frame' = (frame + 1) % MAX_FRAMES_IN_FLIGHT
    /\ renderResult' = "Ok"
    /\ pc' = "r_ret"
    /\ UNCHANGED << step, caller, resized, loopVars, in_flight_fences, pending,
                    images_in_flight, swapVars, image_index, envVars, createLog,
                    destroyLog, notified,
                    transfer, assetVars >>

\* the positions of render and recreate_swapchain at which a device call is
\* followed by `?`
FalliblePcs == {"r_wait", "r_waitimg", "r_uniform", "r_reset", "r_submit",
                "rc_idle", "rc_create"}

\* a device call of render or recreate_swapchain returns an error: `?`
\* returns it from render, and main unwraps it (line 68)
Render_CallFails ==
    /\ pc \in FalliblePcs
    /\ pc = "r_waitimg" => images_in_flight[image_index + 1] # NullFence
    /\ renderResult' = "Err"
    /\ pc' = "panicked"
    /\ UNCHANGED << step, caller, frame, resized, loopVars, syncVars, swapVars,
                    image_index, result, envVars, createLog, destroyLog, ops,
                    notified,
                    transfer, assetVars >>

\* render has returned Ok(()): unwrap passes, the closure returns to the event
\* loop and the locals of render are gone
Render_Return ==
    /\ pc = "r_ret"
    /\ pc' = "loop"
    /\ caller' = "none"
    /\ image_index' = 0
    /\ result' = "none"
    /\ renderResult' = "none"
    /\ ops' = {}
    /\ notified' = NoSize
    /\ destroyLog' = <<>>
    /\ UNCHANGED << step, frame, resized, loopVars, syncVars, swapVars, envVars,
                    createLog, transfer, assetVars >>

----------------------------------------------------------------------------
\* App::recreate_swapchain (lines 216-235) and App::destroy_swapchain (259-278)

\* line 217: device_wait_idle()?, then line 218: destroy_swapchain()
Recreate_WaitIdle ==
    /\ pc = "rc_idle"
    /\ DeviceIdle
    /\ pc' = "ds"
    /\ step' = 1
    /\ destroyLog' = <<>>
    /\ UNCHANGED << caller, frame, resized, loopVars, syncVars, swapVars, image_index,
                    result, renderResult, envVars, createLog, ops, notified,
                    transfer, assetVars >>

\* lines 259-278: one destroy call of destroy_swapchain
DestroySwapchain_Step ==
    /\ pc = "ds"
    /\ LET call == DestroySwapchainSteps[step] IN
        /\ createLog' = SeqFilter(createLog, Range(createLog) \ Destroys(call))
        /\ destroyLog' = Append(destroyLog, call)
    /\ IF step < Len(DestroySwapchainSteps)
       THEN pc' = "ds" /\ step' = step + 1
       ELSE /\ step' = 1
            /\ pc' = IF caller = "destroy" THEN "d_rest" ELSE "rc_create"
    /\ UNCHANGED << caller, frame, resized, loopVars, syncVars, swapVars, image_index,
                    result, renderResult, envVars, ops, notified,
                    transfer, assetVars >>

\* lines 220-230: one create call of recreate_swapchain
Recreate_Step ==
    /\ pc = "rc_create"
    /\ CreateCall(RecreateSteps[step])
    /\ IF step < Len(RecreateSteps)
       THEN pc' = "rc_create" /\ step' = step + 1
       ELSE pc' = "rc_resize" /\ step' = 1
    /\ UNCHANGED << caller, frame, resized, loopVars, pending, present_queue,
                    image_index, result, renderResult, envVars, destroyLog, ops,
                    notified,
                    transfer, assetVars >>

\* line 232: images_in_flight.resize(swapchain_images.len(), Fence::null())
resize_images_in_flight == VecResize(images_in_flight, swapchain_images, NullFence)

\* line 206 written as line 165 is: `return self.recreate_swapchain(window)`,
\* which skips the advance of the frame slot
Recreate_Return_NoAdvance ==
    /\ pc = "rc_resize"
    /\ images_in_flight' = resize_images_in_flight
    /\ renderResult' = "Ok"
    /\ pc' = "r_ret"
    /\ UNCHANGED << step, caller, frame, resized, loopVars, in_flight_fences, pending,
                    semVars, swapVars, image_index, result, envVars, createLog,
                    destroyLog, ops, notified,
                    transfer, assetVars >>

\* line 232, then Ok(()) to the caller: line 165 returns it from render;
\* line 206 goes on to advance the frame slot and return Ok (lines 211-213)
Recreate_Return ==
    /\ pc = "rc_resize"
    /\ images_in_flight' = resize_images_in_flight
    /\ frame' = IF caller = "present" THEN (frame + 1) % MAX_FRAMES_IN_FLIGHT ELSE frame
    /\ renderResult' = "Ok"
    /\ pc' = "r_ret"
    /\ UNCHANGED << step, caller, resized, loopVars, in_flight_fences, pending,
                    semVars, swapVars, image_index, result, envVars, createLog,
                    destroyLog, ops, notified,
                    transfer, assetVars >>

----------------------------------------------------------------------------
\* main: the event loop (lines 63-88)

\* the window system resizes the window and queues the notification.  The
\* program reads the size of the window only in create_swapchain and the
\* notifications only in the event loop, so a resize at any other position is
\* the same as one at the next of these positions; a resize after the close
\* notification is read by nothing.
OsResize ==
    /\ \/ pc = "loop"
       \/ pc = "rc_create" /\ step = 1
    /\ control_flow = "Poll"
    /\ Len(events) < MaxQueue
    /\ \E s \in Sizes :
        /\ s # windowSize
        /\ windowSize' = s
        /\ events' = Append(events, s)
    /\ UNCHANGED << pc, step, caller, frame, resized, loopVars, syncVars, swapVars,
                    image_index, result, renderResult, createLog, destroyLog, ops,
                    notified,
                    transfer, assetVars >>

\* line 71 testing the width only
IsZeroSize_WidthOnly(size) == size[1] = 0

\* line 71: size.width == 0 || size.height == 0
IsZeroSize(size) == size[1] = 0 \/ size[2] = 0

\* lines 70-77: WindowEvent::Resized(size)
Resized ==
    /\ pc = "loop"
    /\ events # <<>>
    /\ LET size == Head(events) IN
        IF IsZeroSize(size)
        THEN minimized' = TRUE /\ UNCHANGED << resized, notified >>
        ELSE minimized' = FALSE /\ resized' = TRUE /\ notified' = size
    /\ events' = Tail(events)
    /\ UNCHANGED << pc, step, caller, frame, destroying, control_flow, closes, syncVars,
                    swapVars, image_index, result, renderResult, windowSize,
                    createLog, destroyLog, ops,
                    transfer, assetVars >>

\* lines 79-81: WindowEvent::CloseRequested.  Exit is sticky, but the events
\* already queued for this iteration are still handed to the closure, a
\* second close notification among them.
CloseRequested ==
    /\ pc = "loop"
    /\ closes < MaxClose
    /\ closes' = closes + 1
    /\ destroying' = TRUE
    /\ control_flow' = "Exit"
    /\ pc' = "c_idle"
    /\ UNCHANGED << step, caller, frame, resized, minimized, syncVars, swapVars,
                    image_index, result, renderResult, envVars, createLog,
                    destroyLog, ops, notified,
                    transfer, assetVars >>

\* line 82: device_wait_idle().unwrap(), then line 83 / 238: destroy() calls
\* destroy_swapchain()
Close_WaitIdle ==
    /\ pc = "c_idle"
    /\ DeviceIdle
    /\ caller' = "destroy"
    /\ pc' = "ds"
    /\ step' = 1
    /\ destroyLog' = <<>>
    /\ UNCHANGED << frame, resized, loopVars, syncVars, swapVars, image_index, result,
                    renderResult, envVars, createLog, ops, notified,
                    transfer, assetVars >>

\* line 82: device_wait_idle() returns an error and unwrap panics
Close_WaitIdleFails ==
    /\ pc = "c_idle"
    /\ pc' = "panicked"
    /\ UNCHANGED << step, caller, frame, resized, loopVars, syncVars, swapVars,
                    image_index, result, renderResult, envVars, createLog,
                    destroyLog, ops, notified,
                    transfer, assetVars >>

\* lines 240-256: one destroy call of App::destroy after destroy_swapchain
Destroy_Step ==
    /\ pc = "d_rest"
    /\ createLog' = SeqFilter(createLog, Range(createLog) \ Destroys(DestroySteps[step]))
    /\ IF step < Len(DestroySteps)
       THEN pc' = "d_rest" /\ step' = step + 1
       ELSE pc' = "loop" /\ step' = 1
    /\ UNCHANGED << caller, frame, resized, loopVars, syncVars, swapVars, image_index,
                    result, renderResult, envVars, destroyLog, ops, notified,
                    transfer, assetVars >>

\* the event loop stops after *control_flow = ControlFlow::Exit
LoopExit ==
    /\ pc = "loop"
    /\ control_flow = "Exit"
    /\ pc' = "exited"
    /\ UNCHANGED << step, caller, frame, resized, loopVars, syncVars, swapVars,
                    image_index, result, renderResult, envVars, createLog,
                    destroyLog, ops, notified,
                    transfer, assetVars >>

----------------------------------------------------------------------------
Next ==
    \/ Create_Step
    \/ Create_Fails
    \/ Transfer_Begin
    \/ Transfer_Submit
    \/ Transfer_GpuComplete
    \/ Transfer_WaitReturns
    \/ Transfer_Free
    \/ Transfer_Done
    \/ GpuComplete
    \/ MainEventsCleared
    \/ Render_WaitSlotFence
    \/ Render_AcquireOk
    \/ Render_AcquireOutOfDate
    \/ Render_AcquireError
    \/ Render_WaitImageFence
    \/ Render_UpdateUniform
    \/ Render_ResetFence
    \/ Render_Submit
    \/ Render_PresentRecreate
    \/ Render_PresentError
    \/ Render_PresentOk
    \/ Render_CallFails
    \/ Render_Return
    \/ Recreate_WaitIdle
    \/ DestroySwapchain_Step
    \/ Recreate_Step
    \/ Recreate_Return
    \/ OsResize
    \/ Resized
    \/ CloseRequested
    \/ Close_WaitIdle
    \/ Close_WaitIdleFails
    \/ Destroy_Step
    \/ LoopExit

Spec == Init /\ [][Next]_vars

\* the steps the main thread takes by itself inside render; an error return
\* of a device call is one of them
MainThreadStep ==
    \/ Render_WaitSlotFence
    \/ Render_AcquireOk
    \/ Render_AcquireOutOfDate
    \/ Render_AcquireError
    \/ Render_WaitImageFence
    \/ Render_UpdateUniform
    \/ Render_ResetFence
    \/ Render_Submit
    \/ Render_PresentRecreate
    \/ Render_PresentError
    \/ Render_PresentOk
    \/ Render_CallFails
    \/ Recreate_WaitIdle
    \/ DestroySwapchain_Step
    \/ Recreate_Step
    \/ Recreate_Return

\* the GPU eventually completes every submitted batch, and the main thread
\* keeps running while a call it is in can return
LiveSpec == Spec /\ WF_vars(GpuComplete) /\ WF_vars(MainThreadStep)

\* a step of the main thread inside render that is not the error return of
\* a device call
MainThreadProgress == MainThreadStep /\ pc' # "panicked"

\* the GPU eventually completes every submitted batch, and a call the main
\* thread is in returns once it can return without an error; no device call
\* is bound to fail
ProgressSpec == Spec /\ WF_vars(GpuComplete) /\ WF_vars(MainThreadProgress)

TypeOK ==
    /\ frame \in Slots
    /\ resized \in BOOLEAN /\ minimized \in BOOLEAN /\ destroying \in BOOLEAN
    /\ Len(images_in_flight) \in 0 .. MaxImages
    /\ \A i \in 1 .. Len(images_in_flight) : images_in_flight[i] \in Slots \cup {NullFence}
    /\ windowSize \in Sizes
    /\ \A s \in 1 .. Len(image_available_semaphores) : image_available_semaphores[s] \in BOOLEAN
    /\ \A s \in 1 .. Len(render_finished_semaphores) : render_finished_semaphores[s] \in BOOLEAN
    /\ \A p \in present_queue : p.image \in 0 .. (MaxImages - 1)

----------------------------------------------------------------------------
\* get_memory_type_index (shared_memory.rs 276-290, main.rs 1057-1071)

\* vk::MemoryPropertyFlags values as sets of flags
MemoryPropertyFlags ==
    { {}, {"DEVICE_LOCAL"}, {"HOST_VISIBLE"}, {"HOST_VISIBLE", "HOST_COHERENT"},
      {"DEVICE_LOCAL", "HOST_VISIBLE", "HOST_COHERENT"} }

\* the flags the callers ask for (mesh.rs 127, 135; texture.rs 98, 151)
RequestedProperties ==
    { {"DEVICE_LOCAL"}, {"HOST_VISIBLE", "HOST_COHERENT"} }

\* the lists of memory types of a device, memory_type_count = Len
RECURSIVE MemoryTypeLists(_)
MemoryTypeLists(n) ==
    IF n = 0 THEN { <<>> }
    ELSE LET shorter == MemoryTypeLists(n - 1) IN
         shorter \cup { Append(l, f) : l \in {x \in shorter : Len(x) = n - 1},
                                        f \in MemoryPropertyFlags }

\* Result<u32>
Ok(i) == << "Ok", i >>

Err == << "Err" >>

\* (memory_type_bits & (1 << i)) != 0
Suitable(bits, i) == (bits \div (2 ^ i)) % 2 # 0

\* property_flags.contains(properties)
Contains(flags, props) == props \subseteq flags

\* (i..memory_type_count).find(|i| suitable && contains)
RECURSIVE Find(_, _, _, _)
Find(i, types, props, bits) ==
    IF i >= Len(types) THEN Err
    ELSE IF Suitable(bits, i) /\ Contains(types[i + 1], props) THEN Ok(i)
    ELSE Find(i + 1, types, props, bits)

\* the search run from the last memory type down: (0..count).rev().find(..)
RECURSIVE FindDown(_, _, _, _)
FindDown(i, types, props, bits) ==
    IF i < 0 THEN Err
    ELSE IF Suitable(bits, i) /\ Contains(types[i + 1], props) THEN Ok(i)
    ELSE FindDown(i - 1, types, props, bits)

get_memory_type_index_Reversed(types, props, bits) ==
    FindDown(Len(types) - 1, types, props, bits)

\* lines 283-289: the first index that is suitable, or the error
get_memory_type_index(types, props, bits) == Find(0, types, props, bits)

\* the device, the requirements of a resource and the requested flags
MemoryInit ==
    /\ AppInit
    /\ NoMesh
    /\ NoImage
    /\ NoTexture
    /\ NoExtentQuery
    /\ NoMipmaps
    /\ memory_types \in MemoryTypeLists(MaxTypes)
    /\ requirements \in 0 .. (2 ^ (MaxTypes + 1) - 1)
    /\ properties \in RequestedProperties
    /\ memory_type_index = <<>>
    /\ NoResource

\* one call of get_memory_type_index
MemoryQuery ==
    /\ res_kind = "none"
    /\ memory_type_index = <<>>
    /\ memory_type_index' = get_memory_type_index(memory_types, properties, requirements)
    /\ UNCHANGED << appVars, meshVars, imageVars, texVars, extentVars, mipVars,
                    memory_types, requirements, properties, resVars >>

MemoryNext == MemoryQuery

MemorySpec == MemoryInit /\ [][MemoryNext]_vars

----------------------------------------------------------------------------
\* create_buffer (shared_memory.rs 55-79) and create_image (81-116)

ResourceKinds == {"buffer", "image"}

\* a call of create_buffer or create_image on a device, for a resource with
\* some memory requirements and some requested property flags
ResourceInit ==
    /\ AppInit
    /\ NoMesh
    /\ NoImage
    /\ NoTexture
    /\ NoExtentQuery
    /\ NoMipmaps
    /\ memory_types \in MemoryTypeLists(MaxTypes)
    /\ requirements \in 0 .. (2 ^ (MaxTypes + 1) - 1)
    /\ properties \in RequestedProperties
    /\ memory_type_index = <<>>
    /\ res_kind \in ResourceKinds
    /\ res_pc = "create"
    /\ res_objects = {}
    /\ res_result = "none"

\* what no step of the two functions changes
ResFrame ==
    UNCHANGED << appVars, meshVars, imageVars, texVars, extentVars, mipVars,
                 memory_types, requirements, properties, res_kind >>

\* `return Err(..)` that first destroys what the call has created
Res_ReturnErr_Released ==
    /\ res_result' = "Err"
    /\ res_pc' = "done"
    /\ res_objects' = {}

\* `return Err(..)` of a `?`: nothing is destroyed on the way out
Res_ReturnErr ==
    /\ res_result' = "Err"
    /\ res_pc' = "done"
    /\ UNCHANGED res_objects

\* lines 68 / 106: device.create_buffer(..)? / device.create_image(..)?
Res_Create ==
    /\ res_pc = "create"
    /\ \/ /\ res_objects' = res_objects \cup {res_kind}
          /\ res_pc' = "select"
          /\ UNCHANGED res_result
       \/ Res_ReturnErr
    /\ UNCHANGED memory_type_index
    /\ ResFrame

\* lines 69-73 / 107-110: the requirements and get_memory_type_index(..)?
Res_SelectType ==
    /\ res_pc = "select"
    /\ memory_type_index' = get_memory_type_index(memory_types, properties, requirements)
    /\ IF memory_type_index' = Err
       THEN Res_ReturnErr
       ELSE /\ res_pc' = "allocate"
            /\ UNCHANGED << res_objects, res_result >>
    /\ ResFrame

\* lines 75 / 112: device.allocate_memory(..)?
Res_Allocate ==
    /\ res_pc = "allocate"
    /\ \/ /\ res_objects' = res_objects \cup {"memory"}
          /\ res_pc' = "bind"
          /\ UNCHANGED res_result
       \/ Res_ReturnErr
    /\ UNCHANGED memory_type_index
    /\ ResFrame

\* lines 76-78 / 113-115: bind_buffer_memory(..)? / bind_image_memory(..)?
\* and Ok((object, memory))
Res_Bind ==
    /\ res_pc = "bind"
    /\ \/ /\ res_result' = "Ok"
          /\ res_pc' = "done"
          /\ UNCHANGED res_objects
       \/ Res_ReturnErr
    /\ UNCHANGED memory_type_index
    /\ ResFrame

ResourceNext ==
    \/ Res_Create
    \/ Res_SelectType
    \/ Res_Allocate
    \/ Res_Bind

ResourceSpec == ResourceInit /\ [][ResourceNext]_vars

----------------------------------------------------------------------------
\* Vertex (vertex.rs) and the deduplication of Mesh::from_filepath
\* (mesh.rs 48-101)

\* f32 values: sign bit and magnitude
Float(sign, mag) == [sign |-> sign, mag |-> mag]

Zero == Float(0, "zero")

NegZero == Float(1, "zero")

One == Float(0, "one")

NaN == Float(0, "nan")

\* f32::to_bits: the sign bit and the 31 bits of exponent and mantissa
to_bits(f) ==
    << f.sign,
       CASE f.mag = "zero" -> 0
         [] f.mag = "one"  -> 1065353216
         [] f.mag = "nan"  -> 2143289344 >>

\* f32 == f32: NaN equals nothing, the two zeros are equal
FloatEq(a, b) ==
    IF a.mag = "nan" \/ b.mag = "nan" THEN FALSE
    ELSE IF a.mag = "zero" /\ b.mag = "zero" THEN TRUE
    ELSE a = b

\* glm::Vec2 / Vec3 ==: component-wise
VecEq(a, b) == \A k \in DOMAIN a : FloatEq(a[k], b[k])

Vertex(pos, color, tex_coord, normal) ==
    [pos |-> pos, color |-> color, tex_coord |-> tex_coord, normal |-> normal]

\* vertex.rs 62-69 comparing bit patterns, as Hash does
VertexEq_Bits(a, b) ==
    /\ \A k \in 1 .. 3 : to_bits(a.pos[k]) = to_bits(b.pos[k])
    /\ \A k \in 1 .. 3 : to_bits(a.color[k]) = to_bits(b.color[k])
    /\ \A k \in 1 .. 2 : to_bits(a.tex_coord[k]) = to_bits(b.tex_coord[k])
    /\ \A k \in 1 .. 3 : to_bits(a.normal[k]) = to_bits(b.normal[k])

\* vertex.rs 62-69: impl PartialEq for Vertex
VertexEq(a, b) ==
    /\ VecEq(a.pos, b.pos)
    /\ VecEq(a.color, b.color)
    /\ VecEq(a.tex_coord, b.tex_coord)
    /\ VecEq(a.normal, b.normal)

\* vertex.rs 73-90: impl Hash for Vertex feeds the bits of the eleven
\* components to the hasher, in this order
VertexHash(v) ==
    << to_bits(v.pos[1]), to_bits(v.pos[2]), to_bits(v.pos[3]),
       to_bits(v.color[1]), to_bits(v.color[2]), to_bits(v.color[3]),
       to_bits(v.tex_coord[1]), to_bits(v.tex_coord[2]),
       to_bits(v.normal[1]), to_bits(v.normal[2]), to_bits(v.normal[3]) >>

\* the corner of the unit cube with these coordinates; color, texture
\* coordinate and normal are the same for all corners
Corner(x, y, z) ==
    Vertex(<<x, y, z>>, <<One, One, One>>, <<Zero, One>>, <<Zero, Zero, One>>)

Corners == { Corner(x, y, z) : x \in {Zero, One}, y \in {Zero, One}, z \in {Zero, One} }

\* the vertices a geometry source is generated from: the corners of the
\* cube, and the first corner with one component changed in its position
\* (to -0.0 and to NaN), color, texture coordinate or normal
InputVertices ==
    Corners \cup
    { [Corner(Zero, Zero, Zero) EXCEPT !.pos[1] = NegZero],
      [Corner(Zero, Zero, Zero) EXCEPT !.pos[1] = NaN],
      [Corner(Zero, Zero, Zero) EXCEPT !.color[2] = Zero],
      [Corner(Zero, Zero, Zero) EXCEPT !.tex_coord[1] = One],
      [Corner(Zero, Zero, Zero) EXCEPT !.normal[3] = Zero] }

RECURSIVE FaceVertexLists(_)
FaceVertexLists(n) ==
    IF n = 0 THEN { <<>> }
    ELSE LET shorter == FaceVertexLists(n - 1) IN
         shorter \cup { Append(l, v) : l \in {x \in shorter : Len(x) = n - 1},
                                        v \in InputVertices }

\* the corners of the cube, numbered by their coordinates
CubeCorner(n) ==
    Corner(IF n % 2 = 1 THEN One ELSE Zero,
           IF (n \div 2) % 2 = 1 THEN One ELSE Zero,
           IF (n \div 4) % 2 = 1 THEN One ELSE Zero)

\* the twelve triangles of the cube, two per side
CubeTriangles ==
    << 0, 1, 3,  0, 3, 2,   4, 6, 7,  4, 7, 5,
       0, 4, 5,  0, 5, 1,   2, 3, 7,  2, 7, 6,
       0, 2, 6,  0, 6, 4,   1, 5, 7,  1, 7, 3 >>

CubeFaceVertices == [k \in 1 .. Len(CubeTriangles) |-> CubeCorner(CubeTriangles[k])]

\* HashMap::get / insert find an entry through its hash and then compare
\* keys with ==.  An entry of equal hash and equal key is found; an entry
\* whose key is equal but hashes differently (Hash and PartialEq disagree)
\* is found or not, which the library leaves unspecified.  Some(index) is
\* <<index>>, None is <<>>.
HashMapGet(map, vertex) ==
    LET certain  == {e \in map : VertexHash(e.key) = VertexHash(vertex) /\ VertexEq(e.key, vertex)}
        possible == {e \in map : VertexEq(e.key, vertex)}
    IN  {<<e.value>> : e \in possible} \cup (IF certain = {} THEN {<<>>} ELSE {})

\* the file is there and parses into the face-vertices of its models, or
\* it is missing, or the parser rejects it
MeshFiles == {"ok", "missing", "malformed"}

\* from_filepath is called with a file name
MeshInit ==
    /\ AppInit
    /\ NoMemoryQuery
    /\ NoImage
    /\ NoTexture
    /\ NoExtentQuery
    /\ NoMipmaps
    /\ mesh_file \in MeshFiles
    /\ IF mesh_file = "ok"
       THEN face_vertices \in FaceVertexLists(MaxFaceVertices) \cup {CubeFaceVertices}
       ELSE face_vertices = <<>>
    /\ cursor = 0
    /\ unique_vertices = {}
    /\ vertices = <<>>
    /\ indices = <<>>
    /\ mesh_pc = "open"
    /\ mesh_objects = {}
    /\ mesh_result = "none"

\* what no step of from_filepath changes
MeshFrame ==
    UNCHANGED << appVars, memVars, imageVars, texVars, extentVars, mipVars,
                 face_vertices, mesh_file >>

\* mesh.rs 35-46: File::open(filepath)?, tobj::load_obj_buf(..)?
Mesh_Open ==
    /\ mesh_pc = "open"
    /\ IF mesh_file = "ok"
       THEN mesh_pc' = "loop" /\ UNCHANGED mesh_result
       ELSE mesh_pc' = "done" /\ mesh_result' = "Err"
    /\ UNCHANGED << cursor, unique_vertices, vertices, indices, mesh_objects >>
    /\ MeshFrame

\* mesh.rs 92-99: one iteration of the loop over mesh.indices
Mesh_Visit ==
    /\ mesh_pc = "loop"
    /\ cursor < Len(face_vertices)
    /\ LET vertex == face_vertices[cursor + 1] IN
       \E found \in HashMapGet(unique_vertices, vertex) :
          IF found # <<>>
          THEN /\ indices' = Append(indices, found[1])
               /\ UNCHANGED << unique_vertices, vertices >>
          ELSE LET index == Len(vertices) IN
               /\ unique_vertices' = unique_vertices \cup {[key |-> vertex, value |-> index]}
               /\ vertices' = Append(vertices, vertex)
               /\ indices' = Append(indices, index)
    /\ cursor' = cursor + 1
    /\ UNCHANGED << mesh_pc, mesh_objects, mesh_result >>
    /\ MeshFrame

\* mesh.rs 102-112: create_vertex_buffer and create_index_buffer, each
\* through a staging buffer it destroys, or the error of one of their calls
Mesh_CreateBuffers ==
    /\ mesh_pc = "loop"
    /\ cursor = Len(face_vertices)
    /\ mesh_pc' = "done"
    /\ \/ /\ mesh_objects' = {"vertex_buffer", "vertex_buffer_memory",
                               "index_buffer", "index_buffer_memory"}
          /\ mesh_result' = "Ok"
       \/ /\ mesh_objects' \in { {}, {"staging_buffer", "staging_buffer_memory"} }
          /\ mesh_result' = "Err"
    /\ UNCHANGED << cursor, unique_vertices, vertices, indices >>
    /\ MeshFrame

MeshNext ==
    \/ Mesh_Open
    \/ Mesh_Visit
    \/ Mesh_CreateBuffers

MeshSpec == MeshInit /\ [][MeshNext]_vars

----------------------------------------------------------------------------
\* get_swapchain_extent (main.rs 663-678) on any surface and window

\* an extent or a window size
Extents == Dims \X Dims

\* the current_extent of a surface that leaves the extent to the swapchain
UndefinedExtent == <<U32_MAX, U32_MAX>>

\* the surface and the window
ExtentInit ==
    /\ AppInit
    /\ NoMemoryQuery
    /\ NoMesh
    /\ NoImage
    /\ NoTexture
    /\ NoMipmaps
    /\ capabilities \in { SurfaceCapabilities(cur, min, max) :
                             cur \in Extents \cup {UndefinedExtent},
                             min \in Extents, max \in Extents }
    /\ inner_size \in Extents
    /\ extent = <<>>

\* one call of get_swapchain_extent
ExtentQuery ==
    /\ extent = <<>>
    /\ extent' = SwapchainExtent(capabilities, inner_size)
    /\ UNCHANGED << appVars, memVars, meshVars, imageVars, texVars, mipVars,
                    capabilities, inner_size >>

ExtentNext == ExtentQuery

ExtentSpec == ExtentInit /\ [][ExtentNext]_vars

----------------------------------------------------------------------------
\* Texture2D::load_from_file (texture.rs 51-268) and the use App::create
\* makes of the texture (main.rs 123-135, 1147-1150, 1179-1203)

\* floor(log2(n)) of an integer n >= 1
RECURSIVE ILog2(_)
ILog2(n) == IF n < 2 THEN 0 ELSE 1 + ILog2(n \div 2)

\* `n as f32` of an integer: n rounded to 24 significant bits, ties to even
as_f32(n) ==
    IF n < 2 ^ 24 THEN n
    ELSE LET shift == ILog2(n) - 23
             q     == n \div (2 ^ shift)
             r     == n % (2 ^ shift)
             half  == 2 ^ (shift - 1)
         IN  IF r > half \/ (r = half /\ q % 2 = 1)
             THEN (q + 1) * (2 ^ shift)
             ELSE q * (2 ^ shift)

\* x lies d below 2 ^ k; its logarithm lies less than one unit in the last
\* place of an f32 below k, that is d < 2 ^ k * ulp * ln 2 with
\* ulp = 2 ^ (j - 23), 2 ^ j < k <= 2 ^ (j + 1)
WithinOneUlp(k, d) ==
    LET e == k + ILog2(k - 1) - 23 IN
    IF e <= 0 THEN FALSE
    ELSE IF d >= 2 ^ e THEN FALSE
    ELSE d * 1000000 < (2 ^ e) * 693147

\* the values `x.log2().floor() as u32` can take for an f32 x that is an
\* integer >= 1: f32::log2 returns the logarithm exactly when it is an
\* integer and one of the two neighbouring f32 values otherwise (its
\* precision is unspecified)
log2_floor(x) ==
    LET e == ILog2(x) IN
    IF x = 2 ^ e THEN {e}
    ELSE {e} \cup (IF WithinOneUlp(e + 1, 2 ^ (e + 1) - x) THEN {e + 1} ELSE {})

\* line 70 with the cast left out: the count taken from the integer
mip_level_counts_NoCast(w, h) == { l + 1 : l \in {ILog2(Max2(w, h))} }

\* line 70: (width.max(height) as f32).log2().floor() as u32 + 1
mip_level_counts(w, h) == { l + 1 : l \in log2_floor(as_f32(Max2(w, h))) }

\* widths and heights of the image files
ImageDims ==
    ({ 2 ^ k - 1 : k \in 1 .. MaxLog2 } \cup { 2 ^ k : k \in 0 .. MaxLog2 }
        \cup { 2 ^ k + 1 : k \in 0 .. MaxLog2 } \cup {768}) \ {0}

ShortDims == {1, 512, 768}

ImageSizes ==
    { <<w, h>> : w \in ImageDims, h \in ShortDims } \cup
    { <<w, h>> : w \in ShortDims, h \in ImageDims }

\* the file is there and decodes to an image of some size, or it is
\* missing, or its header or its image data are malformed
ImageFiles ==
    { [state |-> "ok", size |-> sz] : sz \in ImageSizes } \cup
    { [state |-> st, size |-> <<0, 0>>] : st \in {"missing", "bad_header", "bad_frame"} }

\* commands of a command buffer
Barrier(base, count, old, new) ==
    [op |-> "barrier", base_mip_level |-> base, level_count |-> count,
     old_layout |-> old, new_layout |-> new]

CopyBufferToImage(level) == [op |-> "copy_buffer_to_image", mip_level |-> level]

\* cmd_blit_image of one region within an image: the levels, the layouts the
\* call names for them, and the far corners of the two regions
Blit(src, src_layout, src_offset, dst, dst_layout, dst_offset) ==
    [op |-> "blit", src_mip_level |-> src, src_layout |-> src_layout, src_offset |-> src_offset,
     dst_mip_level |-> dst, dst_layout |-> dst_layout, dst_offset |-> dst_offset]

\* a mip level nothing has been written to
NewLevel == [layout |-> "UNDEFINED", content |-> "undefined"]

\* the effect of one command on the levels of the image (level l is entry
\* l + 1): a barrier moves its levels to new_layout and keeps their contents
\* unless it starts from UNDEFINED or from a layout the level is not in; a
\* copy writes the staging data to its level; a blit writes the scaled
\* contents of its source level to its destination level, provided both are
\* in the layouts the call names
ExecuteOnLevel(cmd, lv, l, src) ==
    IF cmd.op = "barrier"
    THEN IF l - 1 >= cmd.base_mip_level /\ l - 1 < cmd.base_mip_level + cmd.level_count
         THEN [layout  |-> cmd.new_layout,
               content |-> IF cmd.old_layout = lv[l].layout /\ cmd.old_layout # "UNDEFINED"
                           THEN lv[l].content ELSE "undefined"]
         ELSE lv[l]
    ELSE IF cmd.op = "copy_buffer_to_image" /\ l - 1 = cmd.mip_level
         THEN [lv[l] EXCEPT !.content = src]
    ELSE IF cmd.op = "blit" /\ l - 1 = cmd.dst_mip_level
         THEN [lv[l] EXCEPT !.content =
                  IF /\ cmd.src_mip_level + 1 \in 1 .. Len(lv)
                     /\ lv[cmd.src_mip_level + 1].layout = cmd.src_layout
                     /\ lv[l].layout = cmd.dst_layout
                  THEN lv[cmd.src_mip_level + 1].content
                  ELSE "undefined"]
    ELSE lv[l]

RECURSIVE ExecuteFrom(_, _, _, _)
ExecuteFrom(cmd, lv, l, src) ==
    IF l > Len(lv) THEN <<>>
    ELSE << ExecuteOnLevel(cmd, lv, l, src) >> \o ExecuteFrom(cmd, lv, l + 1, src)

ExecuteCommand(cmd, lv, src) == ExecuteFrom(cmd, lv, 1, src)

RECURSIVE Execute(_, _, _)
Execute(cmds, lv, src) ==
    IF cmds = <<>> THEN lv
    ELSE Execute(Tail(cmds), ExecuteCommand(Head(cmds), lv, src), src)

\* load_from_file is called with a file name
TextureInit ==
    /\ AppInit
    /\ NoMemoryQuery
    /\ NoMesh
    /\ NoImage
    /\ NoExtentQuery
    /\ NoMipmaps
    /\ image_file \in ImageFiles
    /\ tex_pc = "open"
    /\ staging = "none"
    /\ copy_cmd = <<>>
    /\ tex_fence = "none"
    /\ tex_objects = {}
    /\ tex_result = "none"
    /\ texture = <<>>
    /\ data_mip_levels = 0
    /\ texture_sampler = <<>>
    /\ descriptor_sets = <<>>

\* what no step of load_from_file changes
TexFrame ==
    UNCHANGED << appVars, memVars, meshVars, extentVars, mipVars, image_file,
                 data_mip_levels >>

\* line 61: File::open(filename).unwrap()
Tex_Open ==
    /\ tex_pc = "open"
    /\ IF image_file.state = "missing"
       THEN tex_pc' = "done" /\ tex_result' = "panic"
       ELSE tex_pc' = "read_info" /\ UNCHANGED tex_result
    /\ UNCHANGED << imageVars, staging, copy_cmd, tex_fence, tex_objects, texture,
                    texture_sampler, descriptor_sets >>
    /\ TexFrame

\* lines 62-63: decoder.read_info().unwrap()
Tex_ReadInfo ==
    /\ tex_pc = "read_info"
    /\ IF image_file.state = "bad_header"
       THEN tex_pc' = "done" /\ tex_result' = "panic"
       ELSE tex_pc' = "next_frame" /\ UNCHANGED tex_result
    /\ UNCHANGED << imageVars, staging, copy_cmd, tex_fence, tex_objects, texture,
                    texture_sampler, descriptor_sets >>
    /\ TexFrame

\* lines 65-70: reader.next_frame(&mut pixels)?, then the size and the
\* number of mip levels
Tex_NextFrame ==
    /\ tex_pc = "next_frame"
    /\ IF image_file.state = "bad_frame"
       THEN /\ tex_pc' = "done"
            /\ tex_result' = "Err"
            /\ UNCHANGED imageVars
       ELSE /\ tex_pc' = "alloc_cmd"
            /\ width' = image_file.size[1]
            /\ height' = image_file.size[2]
            /\ mip_levels' \in mip_level_counts(image_file.size[1], image_file.size[2])
            /\ UNCHANGED << tex_result, levels >>
    /\ UNCHANGED << staging, copy_cmd, tex_fence, tex_objects, texture,
                    texture_sampler, descriptor_sets >>
    /\ TexFrame

\* lines 73-83: allocate_command_buffers, begin_command_buffer
Tex_AllocCmd ==
    /\ tex_pc = "alloc_cmd"
    /\ tex_objects' = tex_objects \cup {"copy_cmd"}
    /\ copy_cmd' = <<>>
    /\ tex_pc' = "staging"
    /\ UNCHANGED << imageVars, staging, tex_fence, tex_result, texture,
                    texture_sampler, descriptor_sets >>
    /\ TexFrame

\* lines 85-108: the staging buffer and its memory, filled with the pixels
Tex_Staging ==
    /\ tex_pc = "staging"
    /\ tex_objects' = tex_objects \cup {"staging_buffer", "staging_mem"}
    /\ staging' = "pixels"
    /\ tex_pc' = "create_image"
    /\ UNCHANGED << imageVars, copy_cmd, tex_fence, tex_result, texture,
                    texture_sampler, descriptor_sets >>
    /\ TexFrame

\* lines 110-157: buffer_copy_regions is filled and never read; the image
\* with mip_levels levels in layout UNDEFINED, and its memory
Tex_CreateImage ==
    /\ tex_pc = "create_image"
    /\ tex_objects' = tex_objects \cup {"image", "device_memory"}
    /\ levels' = [l \in 1 .. mip_levels |-> NewLevel]
    /\ tex_pc' = "barrier"
    /\ UNCHANGED << width, height, mip_levels, staging, copy_cmd, tex_fence,
                    tex_result, texture, texture_sampler, descriptor_sets >>
    /\ TexFrame

\* a buffer-to-image copy into level 0 recorded behind the barrier
TexCommands_WithCopy ==
    << Barrier(0, mip_levels, "UNDEFINED", "TRANSFER_DST_OPTIMAL"), CopyBufferToImage(0) >>

\* lines 159-186: the commands recorded into copy_cmd
TexCommands ==
    << Barrier(0, mip_levels, "UNDEFINED", "TRANSFER_DST_OPTIMAL") >>

Tex_Record ==
    /\ tex_pc = "barrier"
    /\ copy_cmd' = copy_cmd \o TexCommands
    /\ tex_pc' = "submit"
    /\ UNCHANGED << imageVars, staging, tex_fence, tex_objects, tex_result, texture,
                    texture_sampler, descriptor_sets >>
    /\ TexFrame

\* lines 190-196: end_command_buffer, create_fence, queue_submit
Tex_Submit ==
    /\ tex_pc = "submit"
    /\ tex_objects' = tex_objects \cup {"fence"}
    /\ tex_fence' = "unsignaled"
    /\ tex_pc' = "wait"
    /\ UNCHANGED << imageVars, staging, copy_cmd, tex_result, texture,
                    texture_sampler, descriptor_sets >>
    /\ TexFrame

\* the GPU runs the batch and signals its fence; a batch whose command
\* buffer or staging buffer has been freed under it leaves the levels
\* with the contents of the commands or with none
Tex_GpuExecute ==
    /\ tex_fence = "unsignaled"
    /\ tex_fence' = "signaled"
    /\ \/ levels' = Execute(copy_cmd, levels, staging)
       \/ /\ "copy_cmd" \notin tex_objects
          /\ levels' = [l \in 1 .. Len(levels) |-> [levels[l] EXCEPT !.content = "undefined"]]
    /\ UNCHANGED << width, height, mip_levels, tex_pc, staging, copy_cmd, tex_objects,
                    tex_result, texture, texture_sampler, descriptor_sets >>
    /\ TexFrame

\* line 197: wait_for_fences(&[fence], true, 100000000000)?
Tex_WaitReturns ==
    /\ tex_pc = "wait"
    /\ BoundedWaitReturns(tex_fence)
    /\ tex_pc' = "free"
    /\ UNCHANGED << imageVars, staging, copy_cmd, tex_fence, tex_objects, tex_result,
                    texture, texture_sampler, descriptor_sets >>
    /\ TexFrame

\* lines 198-203: destroy_fence, free_command_buffers, free_memory,
\* destroy_buffer
Tex_Free ==
    /\ tex_pc = "free"
    /\ tex_objects' = tex_objects \ {"fence", "copy_cmd", "staging_mem", "staging_buffer"}
    /\ tex_pc' = "sampler"
    /\ UNCHANGED << imageVars, staging, copy_cmd, tex_fence, tex_result, texture,
                    texture_sampler, descriptor_sets >>
    /\ TexFrame

\* Vulkan sampler: the range of levels of detail it samples
Sampler(min_lod, max_lod) == [min_lod |-> min_lod, max_lod |-> max_lod]

\* lines 205-267: the sampler, the view of all levels and the Texture
Tex_Return ==
    /\ tex_pc = "sampler"
    /\ tex_objects' = tex_objects \cup {"sampler", "image_view"}
    /\ texture' = [mip_levels   |-> mip_levels,
                   image_layout |-> "READ_ONLY_OPTIMAL",
                   image_view   |-> [base_mip_level |-> 0, level_count |-> mip_levels],
                   sampler      |-> Sampler(0, mip_levels)]
    /\ tex_result' = "Ok"
    /\ tex_pc' = "done"
    /\ UNCHANGED << imageVars, staging, copy_cmd, tex_fence, texture_sampler,
                    descriptor_sets >>
    /\ TexFrame

\* a device call followed by `?` returns an error (lines 79, 83, 91, 100,
\* 103, 104, 106, 144, 153, 156, 157, 190, 194, 196, 197, 221, 244)
Tex_CallFails ==
    /\ tex_pc \in {"alloc_cmd", "staging", "create_image", "submit", "wait", "sampler"}
    /\ tex_result' = "Err"
    /\ tex_pc' = "done"
    /\ UNCHANGED << imageVars, staging, copy_cmd, tex_fence, tex_objects, texture,
                    texture_sampler, descriptor_sets >>
    /\ TexFrame

\* create_texture_sampler with max_lod taken from the texture
create_texture_sampler_FromTexture == Sampler(0, texture.mip_levels)

\* main.rs 1183-1198: min_lod(0.0), max_lod(data.mip_levels as f32)
create_texture_sampler == Sampler(0, as_f32(data_mip_levels))

\* main.rs 135: create_texture_sampler(&device, &mut data)?
Main_TextureSampler ==
    /\ tex_pc = "done"
    /\ tex_result = "Ok"
    /\ texture_sampler = <<>>
    /\ texture_sampler' = create_texture_sampler
    /\ UNCHANGED << imageVars, tex_pc, staging, copy_cmd, tex_fence, tex_objects,
                    tex_result, texture, descriptor_sets >>
    /\ TexFrame

\* main.rs 1147-1150: the image binding of every descriptor set
Main_DescriptorSets ==
    /\ texture_sampler # <<>>
    /\ descriptor_sets = <<>>
    /\ descriptor_sets' = [image_layout |-> "SHADER_READ_ONLY_OPTIMAL",
                           image_view   |-> texture.image_view,
                           sampler      |-> texture_sampler]
    /\ UNCHANGED << imageVars, tex_pc, staging, copy_cmd, tex_fence, tex_objects,
                    tex_result, texture, texture_sampler >>
    /\ TexFrame

TextureNext ==
    \/ Tex_Open
    \/ Tex_ReadInfo
    \/ Tex_NextFrame
    \/ Tex_AllocCmd
    \/ Tex_Staging
    \/ Tex_CreateImage
    \/ Tex_Record
    \/ Tex_Submit
    \/ Tex_GpuExecute
    \/ Tex_WaitReturns
    \/ Tex_Free
    \/ Tex_Return
    \/ Tex_CallFails
    \/ Main_TextureSampler
    \/ Main_DescriptorSets

TextureSpec == TextureInit /\ [][TextureNext]_vars

----------------------------------------------------------------------------
\* generate_mipmaps (shared_memory.rs 142-274); no function under src/ calls
\* it, so its arguments are any image in transfer-destination layout

\* widths and heights of the images
MipDims == {1, 2, 3, 5, 8, 512, 768, 1024}

\* vk::FormatFeatureFlags of the format, as sets of flags
FormatFeatures ==
    { {}, {"SAMPLED_IMAGE", "BLIT_SRC", "BLIT_DST"},
      {"SAMPLED_IMAGE", "SAMPLED_IMAGE_FILTER_LINEAR", "BLIT_SRC", "BLIT_DST"} }

\* the levels of an image whose level 0 has been uploaded, all in
\* transfer-destination layout
RECURSIVE UploadedLevels(_)
UploadedLevels(n) ==
    IF n = 0 THEN <<>>
    ELSE Append(UploadedLevels(n - 1),
                [layout  |-> "TRANSFER_DST_OPTIMAL",
                 content |-> IF n = 1 THEN "pixels" ELSE "undefined"])

MipmapInit ==
    /\ AppInit
    /\ NoMemoryQuery
    /\ NoMesh
    /\ NoTexture
    /\ NoExtentQuery
    /\ width \in MipDims
    /\ height \in MipDims
    /\ mip_levels \in 1 .. MaxMipLevels
    /\ levels = UploadedLevels(mip_levels)
    /\ format_features \in FormatFeatures
    /\ gm_pc = "check"
    /\ mip_width = 0
    /\ mip_height = 0
    /\ mip_i = 0
    /\ command_buffer = <<>>
    /\ gm_objects = {}
    /\ gm_fence = "none"
    /\ gm_result = "none"

\* what no step of generate_mipmaps changes
MipFrame ==
    UNCHANGED << appVars, memVars, meshVars, texVars, extentVars, width, height,
                 mip_levels, format_features >>

\* what only the end of generate_mipmaps changes
MipEndFrame == UNCHANGED << levels, gm_fence >>

\* the check of lines 152-157 made after the command buffer has been begun
Mip_Check_AfterBegin ==
    /\ gm_pc = "check"
    /\ IF "SAMPLED_IMAGE_FILTER_LINEAR" \in format_features
       THEN /\ gm_pc' = "begin"
            /\ UNCHANGED << gm_result, gm_objects >>
       ELSE /\ gm_pc' = "done"
            /\ gm_result' = "Err"
            /\ gm_objects' = gm_objects \cup {"command_buffer"}
    /\ UNCHANGED << mip_width, mip_height, mip_i, command_buffer >>
    /\ MipEndFrame
    /\ MipFrame

\* lines 152-157: the format must support linear filtering on optimal tiling
Mip_Check ==
    /\ gm_pc = "check"
    /\ IF "SAMPLED_IMAGE_FILTER_LINEAR" \in format_features
       THEN gm_pc' = "begin" /\ UNCHANGED gm_result
       ELSE gm_pc' = "done" /\ gm_result' = "Err"
    /\ UNCHANGED << mip_width, mip_height, mip_i, command_buffer, gm_objects >>
    /\ MipEndFrame
    /\ MipFrame

\* lines 159-174: begin_single_time_commands(device, data)?, the locals of
\* the loop
Mip_Begin ==
    /\ gm_pc = "begin"
    /\ \/ /\ gm_objects' = gm_objects \cup {"command_buffer"}
          /\ mip_width' = width
          /\ mip_height' = height
          /\ mip_i' = 1
          /\ gm_pc' = "loop"
          /\ UNCHANGED gm_result
       \/ /\ gm_result' = "Err"
          /\ gm_pc' = "done"
          /\ UNCHANGED << gm_objects, mip_width, mip_height, mip_i >>
    /\ UNCHANGED command_buffer
    /\ MipEndFrame
    /\ MipFrame

\* lines 214-215 and 246-252 dividing without the test for 1
Halve_NoClamp(v) == v \div 2

\* lines 214-215 and 246-252: if v > 1 { v / 2 } else { 1 }, and
\* if v > 1 { v /= 2 }
Halve(v) == IF v > 1 THEN v \div 2 ELSE 1

\* the loop body with the second barrier left out
MipCommands_NoRelease(i, w, h) ==
    << Barrier(i - 1, 1, "TRANSFER_DST_OPTIMAL", "TRANSFER_SRC_OPTIMAL"),
       Blit(i - 1, "TRANSFER_SRC_OPTIMAL", <<w, h>>,
            i, "TRANSFER_DST_OPTIMAL", <<Halve(w), Halve(h)>>) >>

\* lines 177-244: the commands one iteration records
MipCommands(i, w, h) ==
    << Barrier(i - 1, 1, "TRANSFER_DST_OPTIMAL", "TRANSFER_SRC_OPTIMAL"),
       Blit(i - 1, "TRANSFER_SRC_OPTIMAL", <<w, h>>,
            i, "TRANSFER_DST_OPTIMAL", <<Halve(w), Halve(h)>>),
       Barrier(i - 1, 1, "TRANSFER_SRC_OPTIMAL", "SHADER_READ_ONLY_OPTIMAL") >>

\* lines 176-253: one iteration of `for i in 1..mip_levels`
Mip_Iteration ==
    /\ gm_pc = "loop"
    /\ mip_i < mip_levels
    /\ command_buffer' = command_buffer \o MipCommands(mip_i, mip_width, mip_height)
    /\ mip_width' = Halve(mip_width)
    /\ mip_height' = Halve(mip_height)
    /\ mip_i' = mip_i + 1
    /\ UNCHANGED << gm_pc, gm_objects, gm_result >>
    /\ MipEndFrame
    /\ MipFrame

\* lines 255-269: the barrier of the last level, behind the loop
Mip_LastLevel ==
    /\ gm_pc = "loop"
    /\ mip_i >= mip_levels
    /\ command_buffer' =
           Append(command_buffer,
                  Barrier(mip_levels - 1, 1, "TRANSFER_DST_OPTIMAL", "SHADER_READ_ONLY_OPTIMAL"))
    /\ gm_pc' = "end"
    /\ UNCHANGED << mip_width, mip_height, mip_i, gm_objects, gm_result >>
    /\ MipEndFrame
    /\ MipFrame

\* line 271: end_single_time_commands ends the command buffer and submits
\* it with a fresh fence, or one of its calls fails
Mip_End ==
    /\ gm_pc = "end"
    /\ \/ /\ gm_fence' = "unsignaled"
          /\ gm_pc' = "wait"
          /\ UNCHANGED gm_result
       \/ /\ gm_result' = "Err"
          /\ gm_pc' = "done"
          /\ UNCHANGED gm_fence
    /\ UNCHANGED << levels, mip_width, mip_height, mip_i, command_buffer, gm_objects >>
    /\ MipFrame

\* the GPU runs the command buffer and signals the fence
Mip_GpuExecute ==
    /\ gm_fence = "unsignaled"
    /\ levels' = Execute(command_buffer, levels, "none")
    /\ gm_fence' = "signaled"
    /\ UNCHANGED << gm_pc, mip_width, mip_height, mip_i, command_buffer, gm_objects,
                    gm_result >>
    /\ MipFrame

\* lines 271-273: end_single_time_commands blocks until the fence signals,
\* frees the command buffer, and generate_mipmaps returns
Mip_Return ==
    /\ gm_pc = "wait"
    /\ UnboundedWaitReturns(gm_fence)
    /\ gm_objects' = gm_objects \ {"command_buffer"}
    /\ gm_result' = "Ok"
    /\ gm_pc' = "done"
    /\ UNCHANGED << mip_width, mip_height, mip_i, command_buffer >>
    /\ MipEndFrame
    /\ MipFrame

MipmapNext ==
    \/ Mip_Check
    \/ Mip_Begin
    \/ Mip_Iteration
    \/ Mip_LastLevel
    \/ Mip_End
    \/ Mip_GpuExecute
    \/ Mip_Return

MipmapSpec == MipmapInit /\ [][MipmapNext]_vars

----------------------------------------------------------------------------
\* Vocabulary of the properties

\* the objects whose validity depends on the swapchain
SwapchainObjects ==
    { "swapchain", "swapchain_image_views", "render_pass", "pipeline_layout",
      "pipeline", "color_image", "color_image_memory", "color_image_view",
      "depth_image", "depth_image_memory", "depth_image_view", "framebuffers",
      "uniform_buffers", "uniform_buffers_memory", "descriptor_pool",
      "descriptor_sets", "command_buffers" }

\* the main thread is inside a call of render
InRender ==
    pc \in {"r_wait", "r_acquire", "r_waitimg", "r_uniform", "r_reset", "r_submit",
            "r_present", "r_ret"}
    \/ (pc \in {"rc_idle", "ds", "rc_create", "rc_resize"} /\ caller # "destroy")

\* the running render call got OUT_OF_DATE_KHR from acquire (it has not
\* presented), and is in, or has left, the recreation that line 165 calls
StaleAcquireFrame ==
    /\ result = "OUT_OF_DATE_KHR"
    /\ "present" \notin ops
    /\ InRender \/ (pc = "panicked" /\ renderResult = "Err")

\* a full recreation has run to its end: the old objects were destroyed by
\* destroy_swapchain and every swapchain-dependent object exists again
FullyRecreated ==
    /\ destroyLog = DestroySwapchainSteps
    /\ SwapchainObjects \subseteq Range(createLog)

PendingOn(slotOrImage, isSlot) ==
    {k \in 1 .. Len(pending) :
        IF isSlot THEN pending[k].slot = slotOrImage ELSE pending[k].image = slotOrImage}

----------------------------------------------------------------------------
\* C1: at every instant at most MAX_FRAMES_IN_FLIGHT submitted batches are
\* outstanding on the GPU and at most that many slot fences are unsignaled;
\* a slot has at most one outstanding batch, and once render has passed the
\* wait on the slot fence (line 154) no batch of that slot is outstanding, so
\* the slot is submitted again only after its previous batch has completed.
C1_FramesInFlightBound ==
    /\ Len(pending) <= MAX_FRAMES_IN_FLIGHT
    /\ Cardinality({f \in DOMAIN in_flight_fences : ~in_flight_fences[f]})
          <= MAX_FRAMES_IN_FLIGHT
    /\ \A s \in Slots : Cardinality(PendingOn(s, TRUE)) <= 1
    /\ pc \in {"r_acquire", "r_waitimg", "r_uniform", "r_reset", "r_submit"}
          => PendingOn(frame, TRUE) = {}

\* render is blocked on the fence of its slot while MAX_FRAMES_IN_FLIGHT
\* batches are outstanding
C1_Witness ==
    /\ pc = "r_wait"
    /\ ~in_flight_fences[frame + 1]
    /\ Len(pending) = MAX_FRAMES_IN_FLIGHT

\* C2: no two outstanding batches render to the same swapchain image, and
\* once render has passed the wait on images_in_flight[image_index] (lines
\* 169-175) no batch that renders to that image is outstanding.
C2_NoOverlapPerImage ==
    /\ \A i \in 0 .. (MaxImages - 1) : Cardinality(PendingOn(i, FALSE)) <= 1
    /\ pc \in {"r_uniform", "r_reset", "r_submit"} => PendingOn(image_index, FALSE) = {}

\* acquire has returned an image that a batch of the other slot is still
\* rendering to, and render waits on the fence recorded for that image
C2_Witness ==
    /\ pc = "r_waitimg"
    /\ images_in_flight[image_index + 1] \notin {NullFence, frame}
    /\ ~in_flight_fences[images_in_flight[image_index + 1] + 1]
    /\ PendingOn(image_index, FALSE) # {}

\* C3: after every recreation images_in_flight has the length of the new
\* image list and every entry is the null fence.
C3_AllNullAfterRecreate ==
    (pc = "r_ret" /\ "recreate" \in ops)
        => /\ Len(images_in_flight) = swapchain_images
           /\ \A i \in 1 .. Len(images_in_flight) : images_in_flight[i] = NullFence

\* C4 as stated: a render call whose acquire is stale issues nothing but the
\* recreation and returns success; any other acquire failure returns an error.
C4_StaleAcquireReturnsSuccess ==
    /\ (StaleAcquireFrame /\ pc \in {"r_ret", "panicked"})
          => (renderResult = "Ok" /\ ops = {"acquire", "recreate"})
    /\ (result = "ERROR_OTHER" /\ "present" \notin ops)
          => (renderResult = "Err" /\ "recreate" \notin ops)

\* C4, amended: a render call whose acquire is stale issues no uniform write,
\* no fence reset, no submission and no present, calls the recreation and
\* returns what the recreation returns: success after a full recreation, the
\* error of the failed device call otherwise; any other acquire failure makes
\* render return an error without a recreation.
C4_StaleAcquireAborts ==
    /\ StaleAcquireFrame => ops = {"acquire", "recreate"}
    /\ (StaleAcquireFrame /\ pc = "r_ret") => (renderResult = "Ok" /\ FullyRecreated)
    /\ (StaleAcquireFrame /\ renderResult = "Err") => ~FullyRecreated
    /\ (result = "ERROR_OTHER" /\ "present" \notin ops)
          => (renderResult = "Err" /\ pc = "panicked" /\ ops = {"acquire"})

\* a render call whose acquire was stale has returned after the recreation
C4_Witness ==
    /\ pc = "r_ret"
    /\ StaleAcquireFrame
    /\ renderResult = "Ok"

\* C5: in the step in which render presents, a recreation is begun if and
\* only if the present result is OUT_OF_DATE_KHR or SUBOPTIMAL_KHR or
\* App::resized is set; when none of these holds and present failed, render
\* returns the error and no recreation is begun.
C5_PresentRecreation ==
    [][ ("present" \notin ops /\ "present" \in ops')
          => LET stale == result' \in {"OUT_OF_DATE_KHR", "SUBOPTIMAL_KHR"} IN
             /\ ("recreate" \in ops') <=> (stale \/ resized)
             /\ (pc' = "rc_idle") <=> (stale \/ resized)
             /\ (~stale /\ ~resized /\ result' = "ERROR_OTHER")
                   => (renderResult' = "Err" /\ pc' = "panicked")
             /\ (~stale /\ ~resized /\ result' = "SUCCESS")
                   => (renderResult' = "Ok" /\ pc' = "r_ret") ]_vars

\* a present that succeeded is followed by a recreation because of the
\* resized flag alone
C5_Witness ==
    /\ pc = "rc_idle"
    /\ caller = "present"
    /\ result = "SUCCESS"

Bounded(v) == IF v < MinExtent THEN MinExtent ELSE IF v > MaxExtent THEN MaxExtent ELSE v

ExpectedExtent(cur, size) ==
    IF cur[1] # U32_MAX THEN cur ELSE << Bounded(size[1]), Bounded(size[2]) >>

\* C7 as stated: the frame that follows a resize notification (w, h) with
\* both dimensions non-zero ends with a recreated swapchain whose extent is
\* (w, h) clamped to the capability bounds, or the fixed current extent.
C7_ExtentFromNotification ==
    (pc = "r_ret" /\ notified # NoSize)
        => /\ "recreate" \in ops
           /\ swapchain_extent = ExpectedExtent(current_extent, notified)

\* C7, amended: the frame that follows a resize notification with both
\* dimensions non-zero, if it returns, has recreated the swapchain, and the
\* extent of a created swapchain is the size the window has when
\* create_swapchain reads it, clamped per dimension to the capability bounds,
\* or the fixed current extent; that size is not always the notified (w, h).
C7_ExtentFromWindow ==
    /\ []((pc = "r_ret" /\ notified # NoSize) => ("recreate" \in ops /\ FullyRecreated))
    /\ [][ (pc = "rc_create" /\ step = 1 /\ step' = 2)
             => swapchain_extent' = ExpectedExtent(current_extent', windowSize) ]_vars

\* the frame after a resize notification has returned with the swapchain
\* recreated at the clamped size of the window, which is not the notified size
C7_Witness ==
    /\ pc = "r_ret"
    /\ notified # NoSize
    /\ "recreate" \in ops
    /\ current_extent[1] = U32_MAX
    /\ swapchain_extent # windowSize
    /\ swapchain_extent = ExpectedExtent(current_extent, windowSize)

\* C8: destroy_swapchain and the rest of App::destroy are entered only from
\* a device-idle wait that has returned, and while they run no submitted
\* batch is outstanding.
C8_IdleBeforeTeardown ==
    /\ [](pc \in {"ds", "d_rest"} => pending = <<>>)
    /\ [][ (pc # "ds" /\ pc' = "ds") => (pc \in {"rc_idle", "c_idle"} /\ pending = <<>>) ]_vars

\* destroy_swapchain runs in the frame that submitted a batch
C8_Witness ==
    /\ pc = "ds"
    /\ step > 1
    /\ "submit" \in ops

\* the swapchain-dependent objects still alive, in the order of their
\* creation (descriptor sets are not destroyed by a call of their own)
LiveSwapchainObjects == SeqFilter(createLog, SwapchainObjects \ {"descriptor_sets"})

\* this step is a destroy call of destroy_swapchain
DestroyCall == pc = "ds" /\ Len(destroyLog') = Len(destroyLog) + 1

\* the destroy call of this step destroys the live swapchain-dependent object
\* that was created last
DestroysNewest ==
    /\ LiveSwapchainObjects # <<>>
    /\ destroyLog'[Len(destroyLog')] = LiveSwapchainObjects[Len(LiveSwapchainObjects)]

GroupOf(call) ==
    CASE call \in {"color_image_view", "color_image_memory", "color_image"} -> "color"
      [] call \in {"depth_image_view", "depth_image_memory", "depth_image"} -> "depth"
      [] call \in {"uniform_buffers", "uniform_buffers_memory"} -> "uniform_buffers"
      [] OTHER -> call

RECURSIVE Groups(_)
Groups(calls) ==
    IF calls = <<>> THEN <<>>
    ELSE LET rest == Groups(Tail(calls)) IN
         IF rest # <<>> /\ Head(rest) = GroupOf(Head(calls))
         THEN rest
         ELSE <<GroupOf(Head(calls))>> \o rest

SwapchainLive == "swapchain" \in Range(createLog)

\* recreate_swapchain has been entered by this call of render and has not
\* returned to it
Recreating == caller \in {"acquire", "present"} /\ pc # "r_ret"

\* the state of the swapchain in the lifecycle of the specification
Lifecycle ==
    IF pc \in CreatePcs \cup {"exited_err"} THEN "Uninitialized"
    ELSE IF caller = "destroy" /\ ~SwapchainLive THEN "Destroyed"
    ELSE IF resized \/ Recreating THEN "Invalidated"
    ELSE "Active"

\* this step issues one of the calls
Issues(calls) == (ops' \ ops) \cap calls # {}

\* this step is one of the three triggers of an invalidation
InvalidationTrigger ==
    \/ pc = "loop" /\ events # <<>> /\ ~resized /\ resized' /\ notified' = Head(events)
    \/ pc = "r_acquire" /\ caller' = "acquire" /\ pc' = "rc_idle"
    \/ pc = "r_present" /\ caller' = "present" /\ pc' = "rc_idle"
         /\ result' \in {"SUBOPTIMAL_KHR", "OUT_OF_DATE_KHR"}

\* this step is the return of a recreation that rebuilt every object
RecreationCompletes == pc = "rc_resize" /\ pc' = "r_ret" /\ FullyRecreated'

LifecycleTransitions ==
    { << "Uninitialized", "Active" >>, << "Active", "Invalidated" >>,
      << "Invalidated", "Active" >>, << "Active", "Destroyed" >>,
      << "Invalidated", "Destroyed" >> }

\* C10 as stated: the lifecycle changes only along Uninitialized -> Active
\* -> Invalidated -> Active -> ... -> Destroyed, Invalidated is entered only
\* on one of the three triggers and left only by a full recreation, acquire,
\* submit and present are issued only while Active, and nothing is issued
\* after Destroyed.
C10_LifecycleAsStated ==
    [][ /\ Lifecycle' # Lifecycle => << Lifecycle, Lifecycle' >> \in LifecycleTransitions
        /\ (Lifecycle = "Active" /\ Lifecycle' = "Invalidated") => InvalidationTrigger
        /\ (Lifecycle = "Invalidated" /\ Lifecycle' = "Active") => RecreationCompletes
        /\ Issues({"acquire", "submit", "present"}) => Lifecycle = "Active"
        /\ Lifecycle = "Destroyed"
             => (Lifecycle' = "Destroyed" /\ ops' = ops /\ pc' \notin {"r_wait", "rc_idle"})
      ]_vars

\* C10, amended: the same transitions, triggers and exit by full recreation;
\* acquire, submit and present are issued only on a live swapchain that is
\* Active or Invalidated by a resize notification alone (the frame after a
\* notification still acquires, submits and presents on the old swapchain
\* before it recreates), never inside a recreation; Destroyed is entered from
\* Active or Invalidated, and after it nothing is issued.
C10_Lifecycle ==
    [][ /\ Lifecycle' # Lifecycle => << Lifecycle, Lifecycle' >> \in LifecycleTransitions
        /\ (Lifecycle = "Active" /\ Lifecycle' = "Invalidated") => InvalidationTrigger
        /\ (Lifecycle = "Invalidated" /\ Lifecycle' = "Active") => RecreationCompletes
        /\ Issues({"acquire", "submit", "present"})
             => /\ SwapchainLive
                /\ ~Recreating
                /\ Lifecycle = "Active" \/ (Lifecycle = "Invalidated" /\ resized)
        /\ Lifecycle = "Destroyed"
             => (Lifecycle' = "Destroyed" /\ ops' = ops /\ pc' \notin {"r_wait", "rc_idle"})
      ]_vars

\* the frame after a resize notification has acquired and submitted on the
\* swapchain the notification invalidated
C10_Witness ==
    /\ pc = "r_present"
    /\ Lifecycle = "Invalidated"
    /\ notified # NoSize
    /\ {"acquire", "submit"} \subseteq ops

\* the process has terminated on an error: the panic of an unwrap in the
\* event loop, or main returning the error of App::create
TerminatedOnError == pc \in {"panicked", "exited_err"}

\* C11: when the process terminates on an error, it has waited for the
\* device to be idle and destroyed every GPU resource it created.
C11_TeardownBeforeTermination ==
    TerminatedOnError => (pending = <<>> /\ createLog = <<>>)

\* App::create has returned the App to main
AppCreated == pc \notin CreatePcs \cup {"exited_err"}

\* the three arrays of create_sync_objects, by the name of their objects
SlotArrays == {"image_available_semaphores", "render_finished_semaphores",
               "in_flight_fences"}

\* the number of live objects of that name
LiveCount(name) == Cardinality({i \in DOMAIN createLog : createLog[i] = name})

\* the main thread is inside recreate_swapchain
InRecreation == caller \in {"acquire", "present"} /\ pc \in {"rc_idle", "ds", "rc_create", "rc_resize"}

\* C12: from the end of startup on, the three slot arrays have length
\* MAX_FRAMES_IN_FLIGHT and frame is a slot index; until the close
\* notification their objects are alive, once each; and no step of a
\* recreation changes the arrays or creates or destroys their objects.
C12_ExactlyNSlots ==
    /\ [](AppCreated =>
            /\ Len(image_available_semaphores) = MAX_FRAMES_IN_FLIGHT
            /\ Len(render_finished_semaphores) = MAX_FRAMES_IN_FLIGHT
            /\ Len(in_flight_fences) = MAX_FRAMES_IN_FLIGHT
            /\ frame \in 0 .. (MAX_FRAMES_IN_FLIGHT - 1))
    /\ []((AppCreated /\ closes = 0) => \A a \in SlotArrays : LiveCount(a) = 1)
    /\ [][ InRecreation =>
             /\ Len(image_available_semaphores') = Len(image_available_semaphores)
             /\ Len(render_finished_semaphores') = Len(render_finished_semaphores)
             /\ Len(in_flight_fences') = Len(in_flight_fences)
             /\ \A a \in SlotArrays : LiveCount(a)' = LiveCount(a) ]_vars

\* a recreation has run to its end after a frame in slot 1, and the slot
\* arrays are what create_sync_objects made
C12_Witness ==
    /\ pc = "r_ret"
    /\ caller = "present"
    /\ FullyRecreated
    /\ frame = 0
    /\ Len(in_flight_fences) = MAX_FRAMES_IN_FLIGHT
    /\ Len(image_available_semaphores) = MAX_FRAMES_IN_FLIGHT
    /\ Len(render_finished_semaphores) = MAX_FRAMES_IN_FLIGHT

\* this step issues queue_submit
SubmitIssued == "submit" \notin ops /\ "submit" \in ops'

\* this step issues queue_present_khr
PresentIssued == "present" \notin ops /\ "present" \in ops'

\* the images whose present request the presentation engine runs in this
\* step: a queued request that leaves the queue, or the request issued by
\* this step when it is not queued
PresentedImages ==
    {p.image : p \in present_queue \ present_queue'}
    \cup (IF PresentIssued /\ \A p \in present_queue' \ present_queue : p.image # image_index
          THEN {image_index}
          ELSE {})

\* the images the outstanding batches render to
RenderingImages(batches) == {batches[k].image : k \in 1 .. Len(batches)}

\* C13: the batch of a frame waits on the acquire semaphore of the frame's
\* slot, which the acquire of the same frame has signaled, and signals the
\* render-finished semaphore of the slot; the present of the frame waits on
\* that semaphore; so no batch runs before the acquire that precedes it has
\* signaled, and no image is presented while a batch that renders to it is
\* outstanding.
C13_SemaphoreOrder ==
    /\ [][ SubmitIssued =>
             /\ "acquire" \in ops
             /\ image_available_semaphores[frame + 1]
             /\ pending' = Append(pending,
                                  [slot |-> frame, image |-> image_index,
                                   wait |-> [arr |-> "image_available", slot |-> frame],
                                   signal |-> [arr |-> "render_finished", slot |-> frame]])
         ]_vars
    /\ [][ PresentIssued =>
             /\ "submit" \in ops
             /\ IF render_finished_semaphores[frame + 1]
                THEN /\ ~render_finished_semaphores'[frame + 1]
                     /\ present_queue' = present_queue
                ELSE present_queue' = present_queue \cup
                        {[image |-> image_index,
                          wait |-> [arr |-> "render_finished", slot |-> frame]]}
         ]_vars
    /\ [](\A k \in 1 .. Len(pending) : image_available_semaphores[pending[k].slot + 1])
    /\ [][ PresentedImages \cap RenderingImages(pending') = {} ]_vars

\* a frame has acquired, submitted and presented, and its present request
\* is waiting for the batch of the frame, which the GPU has not completed
C13_Witness ==
    /\ pc = "r_ret"
    /\ {"acquire", "submit", "present"} \subseteq ops
    /\ \E p \in present_queue :
          /\ p.image = image_index
          /\ image_index \in RenderingImages(pending)

\* this step is the Resized handler taking the notification at the head of
\* the queue
ResizeNotification == events # <<>> /\ events' = Tail(events)

\* this step calls render
RenderCalled == pc = "loop" /\ pc' = "r_wait"

\* C14: a resize notification with a zero dimension sets minimized and
\* leaves the recreation flag alone; one with both dimensions non-zero
\* clears minimized and sets the recreation flag; nothing else changes
\* minimized; and while minimized is set render is neither called nor
\* running.
C14_MinimizedSuspends ==
    /\ [][ ResizeNotification =>
             IF Head(events)[1] = 0 \/ Head(events)[2] = 0
             THEN minimized' /\ resized' = resized
             ELSE ~minimized' /\ resized' ]_vars
    /\ [][ minimized' # minimized => ResizeNotification ]_vars
    /\ [][ minimized => ~RenderCalled ]_vars
    /\ [](minimized => ~InRender)

\* a notification with no height has suspended rendering and a notification
\* with both dimensions non-zero is about to resume it
C14_Witness ==
    /\ minimized
    /\ ~destroying
    /\ pc = "loop"
    /\ windowSize[1] # 0 /\ windowSize[2] # 0
    /\ events = << windowSize >>

\* the frame slots and the device-level objects
DeviceObjects ==
    SlotArrays \cup {"descriptor_set_layout", "command_pool", "texture_sampler",
                     "mesh", "textures"}

\* this step is the destroy call of App::destroy for that object
DestroyCallOf(name) ==
    /\ pc = "d_rest"
    /\ DestroySteps[step] = name
    /\ << pc', step' >> # << pc, step >>

\* C15: a frame slot or device-level object is created only by App::create
\* and only once, a destroy call for it is made only by App::destroy on a
\* live object (so it is destroyed once), and a swapchain recreation neither
\* creates nor destroys one.
C15_DeviceObjectsOnce ==
    [][ \A o \in DeviceObjects :
          /\ LiveCount(o)' > LiveCount(o) => (pc \in CreatePcs /\ LiveCount(o) = 0)
          /\ LiveCount(o)' < LiveCount(o) => DestroyCallOf(o)
          /\ DestroyCallOf(o) => LiveCount(o) = 1
          /\ InRecreation => LiveCount(o)' = LiveCount(o) ]_vars

\* this step frees the command buffer, the fence and the staging buffer
\* and memory of the running transfer
TransferFrees == pc = "x_free" /\ pc' # "x_free"

\* C16: every one-shot transfer submits with a fence created for it and
\* unsignaled, its wait returns only when that fence is signaled, and its
\* command buffer, fence and staging buffer and memory are freed only when
\* the GPU has completed its batch.
C16_TransferBlocksUntilComplete ==
    [][ /\ (pc = "x_submit" /\ pc' = "x_wait")
            => (transfer.fence = "none" /\ transfer'.fence = "unsignaled" /\ transfer'.pending)
        /\ (pc = "x_wait" /\ pc' = "x_free") => transfer.fence = "signaled"
        /\ TransferFrees => ~transfer.pending ]_vars

\* the indices that satisfy both constraints of a memory-type query
MatchingTypes ==
    { i \in 0 .. (Len(memory_types) - 1) :
        /\ (requirements \div (2 ^ i)) % 2 = 1
        /\ properties \subseteq memory_types[i + 1] }

\* C17: get_memory_type_index returns the lowest index whose bit is set in
\* the bitmask and whose flags include the requested ones, and the error
\* exactly when there is no such index.
C17_LowestMatchingType ==
    memory_type_index # <<>> =>
        IF MatchingTypes = {}
        THEN memory_type_index = << "Err" >>
        ELSE /\ Len(memory_type_index) = 2
             /\ memory_type_index[1] = "Ok"
             /\ memory_type_index[2] \in MatchingTypes
             /\ \A j \in MatchingTypes : memory_type_index[2] <= j

\* a query with two matching types, the lower of them after a type that has
\* the flags but not the bit
C17_Witness ==
    /\ memory_type_index = << "Ok", 1 >>
    /\ properties \subseteq memory_types[1]
    /\ Cardinality(MatchingTypes) = 2

\* the face-vertices the loop has visited
Visited == 1 .. cursor

\* C18: of the face-vertices visited, two that are bit-identical in every
\* component have the same index, and two that differ in the bits of a
\* component have different indices.
C18_ExactDeduplication ==
    \A i \in Visited, j \in Visited :
        (face_vertices[i] = face_vertices[j]) <=> (indices[i] = indices[j])

\* the first face-vertex that is bit-identical to face-vertex i
FirstOccurrence(i) ==
    CHOOSE j \in 1 .. i :
        /\ face_vertices[j] = face_vertices[i]
        /\ \A k \in 1 .. (j - 1) : face_vertices[k] # face_vertices[i]

\* the distinct vertices among the first n face-vertices
DistinctVertices(n) == { face_vertices[j] : j \in 1 .. n }

\* C19: the first occurrence of each distinct vertex gets the next ascending
\* index, in first-seen order, every repeat reuses the index of its first
\* occurrence, and the set of index values is exactly 0 .. V-1 for a vertex
\* list of length V.
C19_FirstSeenOrder ==
    /\ \A i \in Visited :
          IF FirstOccurrence(i) = i
          THEN indices[i] = Cardinality(DistinctVertices(i - 1))
          ELSE indices[i] = indices[FirstOccurrence(i)]
    /\ { indices[i] : i \in Visited } = 0 .. (Len(vertices) - 1)

\* the loop has visited every face-vertex: vertices and indices are the
\* contents of the vertex buffer and of the index buffer
MeshLoaded == cursor = Len(face_vertices)

\* C20: a loaded mesh has exactly one vertex-buffer entry per distinct input
\* vertex and one index-buffer entry per face-vertex, with every index
\* smaller than the vertex count; the cube gives 8 vertex entries and 36
\* index entries, all in 0 .. 7.
C20_BufferSizes ==
    MeshLoaded =>
        /\ Len(vertices) = Cardinality(DistinctVertices(cursor))
        /\ { vertices[k] : k \in 1 .. Len(vertices) } = DistinctVertices(cursor)
        /\ Len(indices) = Len(face_vertices)
        /\ \A i \in 1 .. Len(indices) : indices[i] \in 0 .. (Len(vertices) - 1)
        /\ face_vertices = CubeFaceVertices =>
              /\ Len(vertices) = 8
              /\ Len(indices) = 36
              /\ \A i \in 1 .. 36 : indices[i] \in 0 .. 7

\* the cube has been loaded into 8 vertices and 36 indices
CubeLoaded ==
    /\ face_vertices = CubeFaceVertices
    /\ MeshLoaded
    /\ Len(vertices) = 8
    /\ Len(indices) = 36

\* load_from_file has computed the number of mip levels
MipLevelsComputed == image_file.state = "ok" /\ tex_pc \notin {"open", "read_info", "next_frame"}

\* C21: the number of mip levels computed for a texture of width W and
\* height H, both at least 1, is floor(log2(max(W, H))) + 1: 11 for
\* 1024 x 768, 10 for 512 x 512, 1 for 1 x 1.
C21_MipLevelCount ==
    MipLevelsComputed =>
        /\ mip_levels = ILog2(Max2(width, height)) + 1
        /\ (width = 1024 /\ height = 768) => mip_levels = 11
        /\ (width = 512 /\ height = 512) => mip_levels = 10
        /\ (width = 1 /\ height = 1) => mip_levels = 1

\* load_from_file was given a file that is missing or malformed, and has ended
TextureLoadFailed == image_file.state \in {"missing", "bad_header", "bad_frame"} /\ tex_pc = "done"

\* from_filepath was given a file that is missing or malformed, and has ended
MeshLoadFailed == mesh_file \in {"missing", "malformed"} /\ mesh_pc = "done"

\* a failed load of a mesh returns an error and has created no device object
MeshFailureIsError == MeshLoadFailed => (mesh_result = "Err" /\ mesh_objects = {})

\* C24: a load of a mesh file or of a texture file that is missing,
\* unreadable or malformed ends by returning an error value to its caller,
\* and has created no buffer, image or memory allocation.
C24_AssetFailureIsError ==
    /\ MeshFailureIsError
    /\ TextureLoadFailed => (tex_result = "Err" /\ tex_objects = {})

\* v brought into min .. max, for min <= max
Clamped(min, max, v) == IF v < min THEN min ELSE IF v > max THEN max ELSE v

\* C23: get_swapchain_extent returns a fixed current extent verbatim;
\* otherwise it returns the width and the height of the window, each
\* clamped to the bounds the surface gives for that dimension, so the result
\* lies within the bounds whenever the minimum is not above the maximum.
C23_ExtentSelection ==
    extent # <<>> =>
        IF capabilities.current_extent # UndefinedExtent
        THEN extent = capabilities.current_extent
        ELSE \A k \in 1 .. 2 :
                LET min == capabilities.min_image_extent[k]
                    max == capabilities.max_image_extent[k]
                IN  min <= max =>
                        /\ extent[k] = Clamped(min, max, inner_size[k])
                        /\ min <= extent[k] /\ extent[k] <= max

\* the surface leaves the extent open and the window is too wide and too low
C23_Witness ==
    /\ extent # <<>>
    /\ capabilities.current_extent = UndefinedExtent
    /\ capabilities.min_image_extent[1] < capabilities.max_image_extent[1]
    /\ capabilities.min_image_extent[2] < capabilities.max_image_extent[2]
    /\ inner_size[1] > capabilities.max_image_extent[1]
    /\ inner_size[2] < capabilities.min_image_extent[2]
    /\ extent = << capabilities.max_image_extent[1], capabilities.min_image_extent[2] >>

\* the blits recorded by generate_mipmaps so far
Blits == { n \in DOMAIN command_buffer : command_buffer[n].op = "blit" }

\* dimension v of level 0 at level i: halved i times, rounding down, and
\* never below 1
RECURSIVE LevelDim(_, _)
LevelDim(v, i) ==
    IF i = 0 THEN v
    ELSE LET half == LevelDim(v, i - 1) \div 2 IN IF half < 1 THEN 1 ELSE half

\* the extents of the levels as the blits give them: level 0 from the source
\* of the first blit, level i from the destination of the blit into it
BlitExtents(k) ==
    [i \in 0 .. (mip_levels - 1) |->
        IF i = 0
        THEN command_buffer[CHOOSE n \in Blits : command_buffer[n].src_mip_level = 0].src_offset[k]
        ELSE command_buffer[CHOOSE n \in Blits : command_buffer[n].dst_mip_level = i].dst_offset[k]]

\* generate_mipmaps has recorded all its commands
MipsRecorded == gm_pc \in {"end", "wait"} \/ (gm_pc = "done" /\ command_buffer # <<>>)

\* C22: in generate_mipmaps the extent of level i is the extent of level
\* i-1 with each axis halved on its own, rounding down and not below 1; each
\* blit's destination extent is the source extent of the blit out of that
\* level; 1024 x 768 with 11 levels gives the widths 1024, 512, ..., 2, 1
\* and the heights 768, 384, 192, 96, 48, 24, 12, 6, 3, 1, 1.
C22_MipExtents ==
    /\ \A n \in Blits :
          LET blit == command_buffer[n] IN
          /\ blit.src_offset = << LevelDim(width, blit.src_mip_level),
                                  LevelDim(height, blit.src_mip_level) >>
          /\ blit.dst_offset = << LevelDim(width, blit.dst_mip_level),
                                  LevelDim(height, blit.dst_mip_level) >>
          /\ blit.dst_mip_level = blit.src_mip_level + 1
    /\ \A n \in Blits, m \in Blits :
          command_buffer[m].src_mip_level = command_buffer[n].dst_mip_level
              => command_buffer[m].src_offset = command_buffer[n].dst_offset
    /\ (MipsRecorded /\ width = 1024 /\ height = 768 /\ mip_levels = 11) =>
          /\ BlitExtents(1) = [i \in 0 .. 10 |->
                 CASE i = 0 -> 1024 [] i = 1 -> 512 [] i = 2 -> 256 [] i = 3 -> 128
                   [] i = 4 -> 64 [] i = 5 -> 32 [] i = 6 -> 16 [] i = 7 -> 8
                   [] i = 8 -> 4 [] i = 9 -> 2 [] i = 10 -> 1]
          /\ BlitExtents(2) = [i \in 0 .. 10 |->
                 CASE i = 0 -> 768 [] i = 1 -> 384 [] i = 2 -> 192 [] i = 3 -> 96
                   [] i = 4 -> 48 [] i = 5 -> 24 [] i = 6 -> 12 [] i = 7 -> 6
                   [] i = 8 -> 3 [] i = 9 -> 1 [] i = 10 -> 1]

\* the eleven levels of a 1024 x 768 image have been recorded
C22_Witness ==
    /\ MipsRecorded
    /\ width = 1024 /\ height = 768 /\ mip_levels = 11
    /\ Cardinality(Blits) = 10

\* what C25 says of a command: the barrier of a level between two layouts,
\* or the blit between two levels
Named(cmd) ==
    IF cmd.op = "barrier"
    THEN << "barrier", cmd.base_mip_level, cmd.level_count, cmd.old_layout, cmd.new_layout >>
    ELSE << "blit", cmd.src_mip_level, cmd.src_layout, cmd.dst_mip_level, cmd.dst_layout >>

\* the commands C25 names for the levels i .. L-1
RECURSIVE NamedCommands(_, _)
NamedCommands(i, L) ==
    IF i > L - 1
    THEN << << "barrier", L - 1, 1, "TRANSFER_DST_OPTIMAL", "SHADER_READ_ONLY_OPTIMAL" >> >>
    ELSE << << "barrier", i - 1, 1, "TRANSFER_DST_OPTIMAL", "TRANSFER_SRC_OPTIMAL" >>,
            << "blit", i - 1, "TRANSFER_SRC_OPTIMAL", i, "TRANSFER_DST_OPTIMAL" >>,
            << "barrier", i - 1, 1, "TRANSFER_SRC_OPTIMAL", "SHADER_READ_ONLY_OPTIMAL" >> >>
         \o NamedCommands(i + 1, L)

\* every command of cmds, run in order on the levels lv, finds the levels
\* it works on in the layouts it names
RECURSIVE LayoutsAsNamed(_, _)
LayoutsAsNamed(cmds, lv) ==
    IF cmds = <<>> THEN TRUE
    ELSE LET cmd == Head(cmds) IN
         /\ IF cmd.op = "blit"
            THEN /\ lv[cmd.src_mip_level + 1].layout = "TRANSFER_SRC_OPTIMAL"
                 /\ lv[cmd.dst_mip_level + 1].layout = "TRANSFER_DST_OPTIMAL"
                 /\ cmd.src_layout = "TRANSFER_SRC_OPTIMAL"
                 /\ cmd.dst_layout = "TRANSFER_DST_OPTIMAL"
            ELSE lv[cmd.base_mip_level + 1].layout = cmd.old_layout
         /\ LayoutsAsNamed(Tail(cmds), ExecuteCommand(cmd, lv, "none"))

\* the barriers that move level l to shader-read-only layout
ReleasesOf(l) ==
    { n \in DOMAIN command_buffer :
        /\ command_buffer[n].op = "barrier"
        /\ command_buffer[n].new_layout = "SHADER_READ_ONLY_OPTIMAL"
        /\ l >= command_buffer[n].base_mip_level
        /\ l < command_buffer[n].base_mip_level + command_buffer[n].level_count }

\* C25: generate_mipmaps on L >= 1 levels in transfer-destination layout
\* records, for i = 1 .. L-1, level i-1 to transfer-source, the blit of level
\* i-1 into level i, level i-1 to shader-read-only, and then the last level
\* to shader-read-only; every barrier and blit finds its levels in the
\* layouts it names; each level is moved to shader-read-only exactly once;
\* and on completion every level is in shader-read-only layout.
C25_MipTransitions ==
    /\ MipsRecorded =>
          /\ [n \in DOMAIN command_buffer |-> Named(command_buffer[n])]
                = NamedCommands(1, mip_levels)
          /\ \A l \in 0 .. (mip_levels - 1) : Cardinality(ReleasesOf(l)) = 1
    /\ LayoutsAsNamed(command_buffer, UploadedLevels(mip_levels))
    /\ gm_result = "Ok" =>
          \A l \in 1 .. mip_levels : levels[l].layout = "SHADER_READ_ONLY_OPTIMAL"

\* a chain of at least three levels has been generated
C25_Witness ==
    /\ gm_result = "Ok"
    /\ mip_levels >= 3
    /\ Cardinality(Blits) = mip_levels - 1
    /\ \A l \in 1 .. mip_levels : levels[l].layout = "SHADER_READ_ONLY_OPTIMAL"

\* the format does not support linear filtering on optimal tiling
UnsupportedBlitFormat == "SAMPLED_IMAGE_FILTER_LINEAR" \notin format_features

\* C26: on a format without linear filtering on optimal tiling
\* generate_mipmaps ends with the error, and it allocates no command buffer,
\* records no barrier or blit and changes the layout of no level.
C26_UnsupportedFormatFails ==
    UnsupportedBlitFormat =>
        /\ gm_pc = "done" => gm_result = "Err"
        /\ gm_pc \in {"check", "done"}
        /\ gm_objects = {}
        /\ command_buffer = <<>>
        /\ levels = UploadedLevels(mip_levels)

\* generate_mipmaps has refused a format
C26_Witness == UnsupportedBlitFormat /\ gm_pc = "done" /\ gm_result = "Err" /\ mip_levels > 1

\* the copies of the staging buffer into level 0 that load_from_file has
\* recorded after a barrier moving level 0 to transfer-destination layout
UploadCopies ==
    { n \in DOMAIN copy_cmd :
        /\ copy_cmd[n].op = "copy_buffer_to_image"
        /\ copy_cmd[n].mip_level = 0
        /\ \E m \in 1 .. (n - 1) :
              /\ copy_cmd[m].op = "barrier"
              /\ copy_cmd[m].base_mip_level = 0
              /\ copy_cmd[m].new_layout = "TRANSFER_DST_OPTIMAL" }

\* C27: Texture2D::load_from_file records, after the transition to
\* transfer-destination layout and before it destroys the staging buffer, a
\* copy of the staging buffer into mip level 0, and the copy is executed:
\* level 0 holds the decoded pixels when the function returns.
C27_Level0Uploaded ==
    /\ tex_pc \in {"submit", "wait", "free", "sampler"} => UploadCopies # {}
    /\ tex_result = "Ok" => (UploadCopies # {} /\ levels[1].content = "pixels")

\* the mip levels of an image of n levels that a sampler can select: the
\* levels of detail within [min_lod, max_lod]
LodLevels(sampler, n) ==
    { l \in 0 .. (n - 1) : sampler.min_lod <= l /\ l <= sampler.max_lod }

\* the image of the loaded texture has mip_levels levels, no command of the
\* upload writes into a level above 0, and those levels hold nothing
MipChainSkipped ==
    tex_result = "Ok" =>
        /\ Len(levels) = texture.mip_levels
        /\ texture.image_view.level_count = texture.mip_levels
        /\ \A n \in DOMAIN copy_cmd : copy_cmd[n].op # "blit"
        /\ \A l \in 1 .. (texture.mip_levels - 1) : levels[l + 1].content = "undefined"

\* C28 as stated: the upload path allocates mip_levels levels without
\* generating the chain, and the sampler the frames sample the texture with
\* has the LOD range [0, mip_levels], which covers the levels
\* 1 .. mip_levels-1 that were never written.
C28_SamplerCoversUnwritten ==
    /\ MipChainSkipped
    /\ descriptor_sets # <<>> =>
          /\ descriptor_sets.sampler = Sampler(0, texture.mip_levels)
          /\ \A l \in 1 .. (texture.mip_levels - 1) :
                l \in LodLevels(descriptor_sets.sampler, texture.mip_levels)

\* C28, amended: the upload path allocates mip_levels levels and a view of
\* all of them without generating the chain; the sampler bound in the
\* descriptor sets is the one of create_texture_sampler, whose LOD range is
\* [0, data.mip_levels] = [0, 0] and selects level 0 only; the sampler with
\* the range [0, mip_levels] is the texture's own, which is never bound.
C28_BoundSamplerRange ==
    /\ MipChainSkipped
    /\ data_mip_levels = 0
    /\ tex_result = "Ok" => texture.sampler = Sampler(0, texture.mip_levels)
    /\ descriptor_sets # <<>> =>
          /\ descriptor_sets.image_view = texture.image_view
          /\ descriptor_sets.sampler = Sampler(0, 0)
          /\ LodLevels(descriptor_sets.sampler, texture.mip_levels) = {0}

\* the descriptor sets bind a texture of several levels
C28_Witness ==
    /\ descriptor_sets # <<>>
    /\ texture.mip_levels > 1
    /\ descriptor_sets.sampler.max_lod = 0
    /\ descriptor_sets.image_view.level_count = texture.mip_levels

\* the call of render has ended: it returned Ok, or it returned an error
\* that main unwraps
RenderReturned == pc = "r_ret" \/ (pc = "panicked" /\ renderResult = "Err")

\* a slot fence is unsignaled only while the batch that signals it is
\* pending, or between its reset and the queue_submit of the next line
UnsignaledOnlyWhilePending ==
    \A s \in DOMAIN in_flight_fences :
        ~in_flight_fences[s] =>
            \/ PendingOn(s - 1, TRUE) # {}
            \/ frame = s - 1 /\ pc = "r_submit"
            \/ frame = s - 1 /\ RenderReturned /\ renderResult = "Err"

\* C29: if the GPU eventually completes every submitted batch, every call
\* of render returns.  Fences are created signaled and a fence is reset only
\* by the step before the submission that signals it, so a slot fence is
\* unsignaled only while that submission is pending; neither the wait on
\* the slot fence nor the wait on images_in_flight[image_index] blocks for
\* ever, also in the call after a stale acquire and after a recreation.
C29_RenderReturns ==
    /\ []UnsignaledOnlyWhilePending
    /\ [][\A s \in DOMAIN in_flight_fences :
            (s \in DOMAIN in_flight_fences' /\ in_flight_fences[s] /\ ~in_flight_fences'[s])
                => (pc = "r_reset" /\ pc' = "r_submit" /\ frame = s - 1)]_vars
    /\ (pc = "r_wait") ~> RenderReturned

\* render is blocked on the fence of its slot by the batch that will signal
\* it, in a call that is to recreate the swapchain after its present
C29_Witness ==
    /\ pc = "r_wait"
    /\ resized
    /\ ~FenceWaitReturns(frame)
    /\ PendingOn(frame, TRUE) # {}

\* this step is the write of update_uniform_buffer(image_index)
UniformWrite == pc = "r_uniform" /\ pc' = "r_reset"

\* this step is a queue_submit
SubmitStep == Len(pending') = Len(pending) + 1

\* C30: update_uniform_buffer(i) never writes while a batch that reads
\* uniform buffer i is pending.  The fence recorded for an image is the
\* fence of the last batch submitted for it, the wait of lines 169-175
\* returns only when no batch of that image is pending, and none is
\* submitted between the wait and the write.
C30_UniformWriteAfterWait ==
    /\ [][UniformWrite => PendingOn(image_index, FALSE) = {}]_vars
    /\ [][(pc = "r_waitimg" /\ pc' = "r_uniform")
            => /\ PendingOn(image_index, FALSE) = {}
               /\ images_in_flight[image_index + 1] # NullFence
                     => in_flight_fences[images_in_flight[image_index + 1] + 1]]_vars
    /\ [](pc = "r_uniform" => PendingOn(image_index, FALSE) = {})
    /\ [][SubmitStep
            => LET batch == pending'[Len(pending')] IN
               /\ images_in_flight[batch.image + 1] = batch.slot
               /\ PendingOn(batch.image, FALSE) = {}]_vars
    /\ [](\A k \in DOMAIN pending :
            /\ pending[k].image + 1 \in DOMAIN images_in_flight
            /\ images_in_flight[pending[k].image + 1] = pending[k].slot)

\* the uniform buffer of an image has been written while the batch of the
\* other slot, which reads another uniform buffer, is still pending
C30_Witness ==
    /\ pc = "r_reset"
    /\ "uniform" \in ops
    /\ PendingOn(image_index, FALSE) = {}
    /\ \E k \in DOMAIN pending : pending[k].image # image_index /\ pending[k].slot # frame

\* C39: the equality and the hash of Vertex agree on the keys of the
\* deduplication: every face-vertex visited equals itself, and two that are
\* equal have the same hash, also with components that are +0.0, -0.0 or NaN.
C39_EqHashConsistent ==
    \A i \in Visited, j \in Visited :
        /\ VertexEq(face_vertices[i], face_vertices[i])
        /\ VertexEq(face_vertices[i], face_vertices[j])
              => VertexHash(face_vertices[i]) = VertexHash(face_vertices[j])

\* create_buffer or create_image has failed after it created the buffer or
\* the image
FailedAfterCreate == res_pc = "done" /\ res_result = "Err" /\ memory_type_index # <<>>

\* C38: create_buffer and create_image, failing at a step after the API
\* object was created (no suitable memory type, allocation or bind failure),
\* return the error with the object and any memory they allocated destroyed.
C38_FailureLeaksNothing ==
    FailedAfterCreate => res_objects = {}

\* C37: from the time the descriptor sets bind the texture, which is before
\* the first frame is submitted, every level of the texture image is in the
\* layout the descriptor declares for it (shader-read-only): the transitions
\* executed by the upload end in that layout.
C37_DeclaredLayout ==
    descriptor_sets # <<>> =>
        /\ descriptor_sets.image_layout = "SHADER_READ_ONLY_OPTIMAL"
        /\ \A l \in 1 .. Len(levels) : levels[l].layout = descriptor_sets.image_layout

\* this step is the return of a recreate_swapchain that render called
RecreationReturns == pc = "rc_resize" /\ pc' = "r_ret"

\* C33: whenever a recreation that render called completes, on the
\* stale-acquire path and on the path after present, App::resized is false
\* afterwards, so the frame that follows does not recreate again for the
\* same resize notification.
C33_ResizedClearedByRecreation ==
    [][RecreationReturns => ~resized']_vars

\* the acquire semaphore of slot f is unsignaled and nothing submitted
\* earlier is still to wait on it
AcquireSemaphoreIdle(f) ==
    /\ ~Signaled(Semaphores, acquire_semaphore(f))
    /\ \A k \in DOMAIN pending : pending[k].wait # acquire_semaphore(f)
    /\ \A p \in present_queue : p.wait # acquire_semaphore(f)

\* C36: whenever render hands the acquire semaphore of its slot to
\* acquire_next_image_khr, the semaphore has no pending signal and no
\* pending wait of an earlier use (the batch that waited on it has
\* completed), and an acquire that returns the stale result leaves it
\* unsignaled.
C36_AcquireSemaphoreIdle ==
    /\ [](pc = "r_acquire" => AcquireSemaphoreIdle(frame))
    /\ [][(pc = "r_acquire" /\ result' = "OUT_OF_DATE_KHR")
            => AcquireSemaphoreIdle(frame)']_vars
    /\ [][(pc = "rc_resize" /\ caller = "acquire") => AcquireSemaphoreIdle(frame)']_vars

\* render is about to acquire with the semaphore of a slot that an earlier
\* frame has used, while the batch of the other slot is still pending
C36_Witness ==
    /\ pc = "r_acquire"
    /\ \E i \in DOMAIN images_in_flight : images_in_flight[i] = frame
    /\ \E k \in DOMAIN pending : pending[k].slot # frame
    /\ AcquireSemaphoreIdle(frame)


----------------------------------------------------------------------------
\* The objects a Vulkan object is created from, by the create call that
\* passes their handles

\* every object made through the logical device
OfDevice ==
    {"swapchain", "swapchain_image_views", "render_pass", "descriptor_set_layout",
     "pipeline_layout", "pipeline", "command_pool",
     "color_image", "color_image_memory", "color_image_view",
     "depth_image", "depth_image_memory", "depth_image_view",
     "framebuffers", "textures", "texture_sampler", "mesh",
     "uniform_buffers", "uniform_buffers_memory", "descriptor_pool",
     "descriptor_sets", "command_buffers"} \cup SlotArrays

\* the memory an image or a buffer is bound to (bind_image_memory,
\* bind_buffer_memory): allocated after the object is created
BoundMemory(r) ==
    CASE r = "color_image"     -> {"color_image_memory"}
      [] r = "depth_image"     -> {"depth_image_memory"}
      [] r = "uniform_buffers" -> {"uniform_buffers_memory"}
      [] OTHER                 -> {}

\* the handles the create call of an object passes, or records into it
CreatedFrom(r) ==
    CASE r = "swapchain"             -> {"surface"}
      [] r = "swapchain_image_views" -> {"swapchain"}
      [] r = "pipeline_layout"       -> {"descriptor_set_layout"}
      [] r = "pipeline"              -> {"pipeline_layout", "render_pass"}
      [] r = "color_image_view"      -> {"color_image"}
      [] r = "depth_image_view"      -> {"depth_image"}
      [] r = "framebuffers"          -> {"render_pass", "color_image_view",
                                         "depth_image_view", "swapchain_image_views"}
      [] r = "descriptor_sets"       -> {"descriptor_pool", "descriptor_set_layout",
                                         "uniform_buffers", "textures", "texture_sampler"}
      [] r = "command_buffers"       -> {"command_pool", "render_pass", "framebuffers",
                                         "pipeline", "pipeline_layout", "descriptor_sets",
                                         "mesh"}
      [] r \in {"surface", "messenger", "device"} -> {"instance"}
      [] OTHER                       -> {}

\* everything a live object of that name refers to
References(r) ==
    CreatedFrom(r) \cup BoundMemory(r) \cup (IF r \in OfDevice THEN {"device"} ELSE {})

\* the place of the live object of that name in the order of creation
Pos(o) == CHOOSE i \in DOMAIN createLog :
              createLog[i] = o /\ \A j \in DOMAIN createLog : createLog[j] = o => j <= i

\* the live object r refers to a live object o of the current generation:
\* o was created before r, or is the memory bound to r after its creation
ValidReference(r, o) ==
    /\ o \in Range(createLog)
    /\ o \in BoundMemory(r) \/ Pos(o) < Pos(r)

NoDanglingReference ==
    \A r \in Range(createLog) : \A o \in References(r) : ValidReference(r, o)

\* the device handle exists
DeviceLive == "device" \in Range(createLog)

\* this step is a destroy call of App::destroy, destroy_swapchain included
TeardownCall ==
    \/ pc = "ds" /\ caller = "destroy" /\ Len(destroyLog') = Len(destroyLog) + 1
    \/ pc = "d_rest" /\ << pc', step' >> # << pc, step >>

\* the object handed to the destroy call of this step
TeardownTarget == IF pc = "ds" THEN DestroySwapchainSteps[step] ELSE DestroySteps[step]

\* C32: App::destroy runs at most once and nothing uses a destroyed handle
\* afterwards: whatever window events arrive (a second close notification,
\* resize notifications after the close), device_wait_idle and every other
\* device call is made on a live device, App::destroy is entered with
\* nothing torn down yet, and every destroy call is handed a live object.
C32_TeardownOnce ==
    /\ [](pc \in {"c_idle", "rc_idle", "r_wait", "r_acquire", "r_submit", "r_present"}
            => DeviceLive)
    /\ [][(pc = "c_idle" /\ pc' = "ds")
            => {"instance", "device", "swapchain"} \subseteq Range(createLog)]_vars
    /\ [][TeardownCall => TeardownTarget \in Range(createLog)]_vars

\* C31: in destroy_swapchain no destroy call leaves a live object that
\* refers to a destroyed one (image views outlive no framebuffer attachment
\* use, descriptor pool and uniform buffers outlive the command buffers
\* recorded against their sets, memory outlives the image bound to it).
C31_DestroySwapchainOrder ==
    [][ DestroyCall => NoDanglingReference' ]_vars

\* C35: outside destroy_swapchain, in App::create, in recreate_swapchain and
\* in the frames that follow, every live object refers only to live objects
\* created before it (bound memory apart), so none refers to a handle of a
\* destroyed generation, and the command buffers render submits and all they
\* refer to are live.
C35_ReferencesCurrent ==
    /\ pc # "ds" => NoDanglingReference
    /\ pc \in {"r_submit", "r_present"} =>
         ({"command_buffers"} \cup CreatedFrom("command_buffers")) \subseteq Range(createLog)

\* render is about to submit the command buffer of a generation made by a
\* recreation: the swapchain is younger than the startup mesh
C35_Witness ==
    /\ pc = "r_submit"
    /\ {"swapchain", "mesh", "command_buffers"} \subseteq Range(createLog)
    /\ Pos("mesh") < Pos("swapchain")
    /\ Pos("descriptor_sets") < Pos("command_buffers")
    /\ NoDanglingReference


\* every per-image vector has one entry per swapchain image
PerImageLengths ==
    /\ \A a \in PerImageArrays : array_lengths[a] = swapchain_images
    /\ Len(images_in_flight) = swapchain_images

\* render holds an image index returned by acquire
HoldsImageIndex == pc \in {"r_waitimg", "r_uniform", "r_reset", "r_submit", "r_present"}

\* C34: once App::create has returned, and outside the create calls of a
\* recreation, every per-image vector and images_in_flight have as many
\* entries as the swapchain has images, also when a recreation changed the
\* image count, and an image index returned by acquire is below each length.
C34_PerImageLengths ==
    /\ (AppCreated /\ pc \notin {"rc_create", "rc_resize", "panicked"}) => PerImageLengths
    /\ HoldsImageIndex =>
         /\ \A a \in PerImageArrays : image_index < array_lengths[a]
         /\ image_index < Len(images_in_flight)

\* a recreation has rebuilt the per-image vectors for a swapchain whose
\* image count differs from the previous one, and is about to resize
\* images_in_flight
C34_Witness ==
    /\ pc = "rc_resize"
    /\ \A a \in PerImageArrays : array_lengths[a] = swapchain_images
    /\ Len(images_in_flight) # swapchain_images

====
